---- MODULE Spec2Model ----
(***************************************************************************)
(* Model of the auto-coder watcher: the webhook transport                  *)
(* (WebhookHandler.handle / processWebhook), the provider's webhook entry  *)
(* point (GitHubProvider.handleWebhook / shouldProcessEvent), the          *)
(* dispatcher's per-provider event-handler closure                         *)
(* (Watcher.createEventHandler / isDuplicate / markAsProcessed) and the    *)
(* command executor (CommandExecutor.execute / runCommand).                *)
(*                                                                         *)
(* JavaScript runs each piece of code between two suspension points        *)
(* (await, setImmediate, child-process events) to completion, so every     *)
(* action below is one such piece; the deliveries interleave only at the   *)
(* suspension points.                                                      *)
(***************************************************************************)
EXTENDS Integers, Sequences, FiniteSets, TLC

\* ---------------------------------------------------------------- bounds
MaxDeliveries == 2
MaxHumanComments == 1
MaxItems == 2          \* items one provider poll returns at most
MaxRequests == 2       \* HTTP requests sent to the webhook server
MaxStarts == 2         \* calls of Watcher.start()
MaxStops == 1          \* calls of Watcher.stop()
MaxEvents == 2         \* webhook events and polled items one provider is given
MaxClock == 5          \* the last hour the clock reaches
MaxPolls == 3          \* calls of a platform poller's poll()

Requests == 1..MaxRequests
StartCalls == 1..MaxStarts
StopCalls == 1..MaxStops
Providers == {"github", "linear"}

Deliveries == 1..MaxDeliveries

\* ------------------------------------------------------- program constants
BotAccount == "bot"                    \* the account the reactor posts as
BotUsernames == {"bot", "bot[bot]"}    \* config.deduplication.botUsername
Repository == "o/r"
Numbers == {42}                        \* resources (issues) of the repository

Null == [kind |-> "null"]

\* Poller's constants.
maxErrorCount == 5
baseBackoff == 1000
maxBackoff == 60000

\* Native actions and states of the delivered payloads.
Actions == {"opened", "created", "reopened"}
States == {"open", "closed"}

VARIABLES
  cfg,          \* the resolved configuration the Watcher was built with
  thread,       \* platform: thread[n] = comments on resource n, oldest first
  version,      \* platform: number of changes made to thread[n]
  humanPosts,   \* number of comments written by humans so far
  req,          \* req[d]: body of the HTTP request of delivery d
  valid,        \* valid[d]: what provider.validateWebhook answered for d
  event,        \* event[d]: the NormalizedEvent handed to the closure for d
  hpc,          \* position of WebhookHandler.handle / processWebhook for d
  response,     \* response[d]: the responses written on d's res, in order
  calls,        \* calls[d]: provider methods invoked for d
  epc,          \* position of the event-handler closure for d
  lookup,       \* lookup[d]: what reactor.getLastComment() did for d
  posted,       \* posted[d]: comments posted through the reactor for d
  spawned,      \* spawned[d]: subprocesses spawned for d
  exit,         \* exit[d]: how the subprocess of d ended
  commentRef,   \* commentRef[d]: handle returned by the marker post
  flags,        \* flags[d]: what happened inside the closure for d
  errorsPublished, \* number of 'error' notifications delivered to a listener
  doneBefore    \* doneBefore[d]: deliveries fully handled when d arrived

\* The Poller of one provider (Poller's fields and its poll() invocations).
VARIABLES
  intervalId,   \* Poller.intervalId is set (the interval timer is armed)
  polling,      \* Poller.polling
  errorCount,   \* Poller.errorCount
  ticks,        \* the poll() invocations that passed the guards and have not
                \* returned: stage, items left, back-off delay, cancelled
  streak,       \* failed provider.poll calls since the last successful one
  disabled,     \* poll() took the "excessive errors" branch
  skipped,      \* poll() took the "already polling" branch
  handledAfterStop \* an in-flight poll called the event handler after stop()

pollerVars == <<intervalId, polling, errorCount, ticks, streak, disabled,
                skipped, handledAfterStop>>

\* The WebhookServer and the HTTP requests sent to it.
VARIABLES
  http,           \* the http.Server behind WebhookServer.server:
                  \* "none" (undefined), "listening", "closing"
  shuttingDown,   \* WebhookServer.shuttingDown
  activeRequests, \* WebhookServer.activeRequests
  spc,            \* position of WebhookServer.stop()
  elapsed,        \* 30 s have gone by since stop() was called
  requests        \* requests[r]: the HTTP request r

serverVars == <<http, shuttingDown, activeRequests, spc, elapsed, requests>>

\* The Watcher's lifecycle: its fields, the providers, and the start() and
\* stop() calls made on it.
VARIABLES
  started,      \* Watcher.started
  registry,     \* ProviderRegistry.providers: the names, in insertion order
  unregistered, \* the names unregisterProvider has removed so far
  refused,      \* a registerProvider / unregisterProvider call threw
                \* because the watcher was started
  pconf,        \* config.providers[name], as start() reads it
  pstate,       \* pstate[p]: "new", "ready" (initialized), "down" (shut down)
  inits,        \* inits[p]: completed provider.initialize calls
  wserver,      \* Watcher.server: the start() call that created it, 0 = undefined
  servers,      \* servers[c]: the WebhookServer created by start() call c
  pollers,      \* Watcher.pollers: pollers[p] = the call that created it, 0 = none
  timers,       \* the Pollers whose interval timer is armed, as <<c, p>>
  sc,           \* sc[c]: the start() call c
  tc,           \* tc[k]: the stop() call k
  emitted,      \* the lifecycle notifications emitted, in order
  shutdownWhileLive \* provider.shutdown() was called with a timer armed or a
                    \* server accepting

watcherVars == <<started, registry, unregistered, refused, pconf, pstate, inits, wserver, servers,
                 pollers, timers, sc, tc, emitted, shutdownWhileLive>>

\* One forge provider (GitHub or GitLab): the events its handleWebhook and
\* its poll loop were given, and what became of them.
VARIABLES
  forge,        \* metadata.name of the provider
  ppc,          \* position of provider.poll in its loop body: the item it
                \* awaits the comment listing for
  handled,      \* the events passed to the event handler
  dropped,      \* the events filtered out
  seen          \* number of events and polled items taken so far

providerVars == <<forge, ppc, handled, dropped, seen>>

\* One platform poller (GitHubPoller, GitLabPoller or LinearPoller).
VARIABLES
  platform,     \* which poller it is
  clock,        \* Date.now(), in hours
  lastPoll,     \* lastPoll[c]: the cursor of container c, 0 = not set
  cpc,          \* position of poll(): the container being polled, the since
                \* it computed, the fetch it awaits
  prev,         \* prev[c]: since and outcome of the last finished poll of c
  polls,        \* number of poll() calls made so far
  maxItemsPerPoll, \* config.maxItemsPerPoll, 0 = not set
  updatedAt,    \* platform: updatedAt[i] = when item i was updated, 0 = never
  items,        \* the arrays of the current (or last) poll(): what poll()
                \* gathered before trimming, and what the container being
                \* polled has given so far
  returned      \* the items poll() has returned so far

cursorVars == <<platform, clock, lastPoll, cpc, prev, polls, maxItemsPerPoll,
                updatedAt, items, returned>>

\* One call of withExponentialRetry(fn, options).
VARIABLES
  opts,         \* { ...defaultOptions, ...options }
  attempt,      \* the loop variable
  rpc,          \* "calling" fn, "waiting" for the delay, "resolved", "rejected"
  lastError,    \* the last error fn threw
  fnCalls,      \* number of calls of fn made so far
  waits         \* the delays waited so far, in order

retryVars == <<opts, attempt, rpc, lastError, fnCalls, waits>>

\* One call of GitHubWebhook.validate(headers, rawBody).
VARIABLES
  hook,         \* the secret of the GitHubWebhook, the headers and the body
  verdict       \* what validate returned

validateVars == <<hook, verdict>>

\* One CommandExecutor.runCommand(eventId, prompt, event): the environment it
\* gives the subprocess.
VARIABLES
  subject,      \* the NormalizedEvent the command is run for
  env           \* env.EVENT_SHORT_ID of the spawn, "" before the spawn

executorVars == <<subject, env>>

toolVars == <<providerVars, cursorVars, retryVars, validateVars, executorVars>>

lifecycleVars == <<pollerVars, serverVars, watcherVars, toolVars>>

deliveryVars == <<cfg, thread, version, humanPosts, req, valid, event, hpc,
                  response, calls, epc,
                  lookup, posted, spawned, exit, commentRef, flags,
                  errorsPublished, doneBefore>>

vars == <<deliveryVars, lifecycleVars>>

notPollerVars == <<deliveryVars, serverVars, watcherVars, toolVars>>
notServerVars == <<deliveryVars, pollerVars, watcherVars, toolVars>>
notWatcherVars == <<deliveryVars, pollerVars, serverVars, toolVars>>
coreVars == <<deliveryVars, pollerVars, serverVars, watcherVars>>
notProviderVars == <<coreVars, cursorVars, retryVars, validateVars,
                     executorVars>>
notCursorVars == <<coreVars, providerVars, retryVars, validateVars,
                   executorVars>>
notRetryVars == <<coreVars, providerVars, cursorVars, validateVars,
                  executorVars>>
notValidateVars == <<coreVars, providerVars, cursorVars, retryVars,
                     executorVars>>
notExecutorVars == <<coreVars, providerVars, cursorVars, retryVars,
                     validateVars>>

requestVars == <<req, valid, doneBefore>>
platformVars == <<thread, version, humanPosts>>
closureVars == <<epc, lookup, posted, spawned, exit, commentRef, flags,
                 errorsPublished>>

\* ------------------------------------------------------------ configuration
\* WatcherConfig as the code reads it.  An option the code never reads under
\* the other options is fixed to FALSE, so that every configuration below
\* behaves differently from the others.
\*   token         the provider resolved an API token (this.comments is set)
\*   executor      config.commandExecutor?.enabled
\*   dryRun        commandExecutor.dryRun
\*   followUp      commandExecutor.followUp
\*   refs          the reactor's postComment returns a non-empty handle
\*   errorListener a listener is registered for the 'error' notification
Configs ==
  { c \in [token : BOOLEAN, executor : BOOLEAN, dryRun : BOOLEAN,
           followUp : BOOLEAN, refs : BOOLEAN, errorListener : BOOLEAN] :
      /\ (~c.token) => (~c.executor /\ ~c.errorListener)
      /\ (~c.executor) => (~c.dryRun /\ ~c.followUp)
      /\ (~c.followUp) => ~c.refs }

\* ---------------------------------------------------------------- requests
\* Bodies of the POST requests that reach a provider's webhook route.
Bodies ==
  { [type |-> "url_verification", challenge |-> "abc123"],
    [type |-> "url_verification", challenge |-> ""],
    [type |-> "event", challenge |-> ""] }
NoBody == [type |-> "none", challenge |-> ""]

\* What an event body carries: a hook the provider does not support, or an
\* issue event.
Ping == [event |-> "ping", action |-> "none", state |-> "none", number |-> 0]
IssuePayloads ==
  [event : {"issues"}, action : Actions, state : States, number : Numbers]
PayloadsOf(body) ==
  IF body.type = "event" THEN {Ping} \cup IssuePayloads ELSE {Ping}

Reply(status, body) == [status |-> status, body |-> body]

\* How a child process can end.
Outcomes ==
  [event : {"close"}, code : {0, 1}, stdout : {"", "done"}]
  \cup {[event |-> "error", code |-> 1, stdout |-> ""]}

\* ------------------------------------------------------------ pure functions
\* GitHubProvider.normalizeEvent: the fields the dispatcher and the filter use.
normalizeEvent(payload) ==
  [provider |-> "github", type |-> "issue", action |-> payload.action,
   resource |-> [repository |-> Repository, number |-> payload.number,
                 state |-> payload.state]]
NoEvent == [provider |-> "none"]

\* A filter without its rule 4: closed items pass.
shouldProcessEvent_KeepClosed(ev, hasRecentComments) ==
  IF ev.action = "opened" THEN FALSE
  ELSE IF ev.type = "pull_request" /\ ev.action = "synchronize" THEN FALSE
  ELSE IF ev.type = "pull_request" /\ ev.action = "poll"
          /\ hasRecentComments = "false" THEN FALSE
  ELSE IF ev.type = "pull_request"
          /\ ev.action \in {"edited", "labeled", "unlabeled", "assigned",
                            "unassigned", "locked", "unlocked"} THEN FALSE
  ELSE TRUE

\* GitHubProvider.shouldProcessEvent
shouldProcessEvent(ev, hasRecentComments) ==
  IF ev.action = "opened" THEN FALSE
  ELSE IF ev.type = "pull_request" /\ ev.action = "synchronize" THEN FALSE
  ELSE IF ev.type = "pull_request" /\ ev.action = "poll"
          /\ hasRecentComments = "false" THEN FALSE
  ELSE IF ev.type = "pull_request"
          /\ ev.action \in {"edited", "labeled", "unlabeled", "assigned",
                            "unassigned", "locked", "unlocked"} THEN FALSE
  ELSE IF ev.resource.state = "closed" /\ ev.action # "reopened" THEN FALSE
  ELSE TRUE

\* GitLabProvider.shouldProcessEvent
GitLab_shouldProcessEvent(ev, hasRecentNotes) ==
  IF ev.action = "open" THEN FALSE
  ELSE IF ev.type = "merge_request" /\ ev.action = "update" THEN FALSE
  ELSE IF ev.type = "merge_request" /\ ev.action = "poll"
          /\ hasRecentNotes = "false" THEN FALSE
  ELSE IF ev.resource.state = "closed" /\ ev.action # "reopen" THEN FALSE
  ELSE TRUE

\* Watcher.generateDisplayString
generateDisplayString(ev) ==
  <<ev.resource.repository, "#", ev.resource.number>>


\* Mutant: the first comment of the list is taken for the last one.
getLastComment_First(comments) ==
  IF Len(comments) = 0 THEN Null ELSE comments[1]

\* GitHubComments.getLastComment: comments[comments.length - 1], or null.
getLastComment(comments) ==
  IF Len(comments) = 0 THEN Null ELSE comments[Len(comments)]


\* Mutant: the author of the last comment is never matched.
isDuplicate_NoMatch(lastComment) == FALSE

\* Watcher.isDuplicate, after reactor.getLastComment() has answered.
isDuplicate(lastComment) ==
  IF lastComment = Null THEN FALSE
  ELSE lastComment.author \in BotUsernames

Comment(author, kind) == [kind |-> kind, author |-> author]


\* Mutant: the post is answered but the comment never reaches the thread.
postComment_Lost(comments, comment) == comments

\* GitHubReactor.postComment -> GitHubComments.postComment: the platform
\* appends the comment to the resource's thread.
postComment(comments, comment) == Append(comments, comment)

\* LinearReactor.updateComment and its like: the body of the comment the
\* handle names is replaced; its author and its place in the thread stay.
updateComment(comments, ref, kind) ==
  [i \in 1..Len(comments) |->
     IF i = ref THEN [comments[i] EXCEPT !.kind = kind] ELSE comments[i]]


\* Mutant: the handshake is looked for under the wrong type.
isHandshake_WrongType(body) ==
  body.type = "event_callback" /\ body.challenge # ""

\* WebhookHandler.handle, lines 32-40: the URL-verification handshake.
isHandshake(body) == body.type = "url_verification" /\ body.challenge # ""


\* Mutant: processing is scheduled without the ack having been written.
afterValidation_NoAck(isValid) ==
  CASE isValid = "valid" -> [reply |-> <<>>, next |-> "scheduled"]
    [] isValid = "invalid" ->
         [reply |-> <<Reply(401, "Invalid webhook")>>, next |-> "done"]
    [] OTHER ->
         [reply |-> <<Reply(500, "Internal server error")>>, next |-> "done"]

\* Mutant: the return after the 401 is missing.
afterValidation_NoReturn(isValid) ==
  CASE isValid = "valid" ->
         [reply |-> <<Reply(202, "accepted")>>, next |-> "scheduled"]
    [] isValid = "invalid" ->
         [reply |-> <<Reply(401, "Invalid webhook")>>, next |-> "scheduled"]
    [] OTHER ->
         [reply |-> <<Reply(500, "Internal server error")>>, next |-> "done"]

\* WebhookHandler.handle, lines 49-71: what is written on res, and where the
\* handler goes, once provider.validateWebhook has settled.
afterValidation(isValid) ==
  CASE isValid = "valid" ->
         [reply |-> <<Reply(202, "accepted")>>, next |-> "scheduled"]
    [] isValid = "invalid" ->
         [reply |-> <<Reply(401, "Invalid webhook")>>, next |-> "done"]
    [] OTHER ->   \* validateWebhook threw: catch, headers not sent yet
         [reply |-> <<Reply(500, "Internal server error")>>, next |-> "done"]


\* Mutant: the catch answers 500 without looking at res.headersSent.
onProcessError_Respond(written) ==
  Append(written, Reply(500, "Internal server error"))

\* WebhookHandler.handle, lines 60-64: the catch of processWebhook's promise
\* only logs; nothing is written on res.
onProcessError(written) == written


\* Mutant: a failed marker post is logged and the command runs all the same.
afterMarkerPost_IgnoreFailure(ok, dryRun) ==
  IF dryRun THEN "return" ELSE "runCommand"

\* An execute that runs the command in dry-run mode too.
afterMarkerPost_IgnoreDryRun(ok, dryRun) ==
  IF ~ok THEN "catch" ELSE "runCommand"

\* CommandExecutor.execute, lines 184-195: the step after the marker post has
\* settled.  A failed post throws into the catch of line 207.
afterMarkerPost(ok, dryRun) ==
  IF ~ok THEN "catch" ELSE IF dryRun THEN "return" ELSE "runCommand"

\* CommandExecutor.runCommand, lines 284-303: the promise resolves with stdout
\* on exit code 0 and rejects on any other code and on a spawn error.
runCommandResolves(outcome) == outcome.event = "close" /\ outcome.code = 0

\* A follow-up whenever followUp is set, whatever the command printed.
wantsFollowUp_IgnoreOutput(followUp, output) == followUp

\* CommandExecutor.execute, line 198
wantsFollowUp(followUp, output) == followUp /\ output # ""

\* Node's EventEmitter.emit('error', e): with no listener it throws e.
emitErrorThrows(errorListener) == ~errorListener

\* -------------------------------------------------------------------- Init
NoLookup == [done |-> FALSE, failed |-> FALSE, returned |-> Null,
             tail |-> Null, ver |-> 0]
NoExit == [event |-> "none", code |-> 0, stdout |-> ""]
NoFlags == [subscriberThrew |-> FALSE, dispatched |-> FALSE,
            processError |-> FALSE, updated |-> FALSE]

NoDeliveries ==
  /\ thread = [n \in Numbers |-> <<>>]
  /\ version = [n \in Numbers |-> 0]
  /\ humanPosts = 0
  /\ req = [d \in Deliveries |-> NoBody]
  /\ valid = [d \in Deliveries |-> "none"]
  /\ event = [d \in Deliveries |-> NoEvent]
  /\ hpc = [d \in Deliveries |-> "idle"]
  /\ response = [d \in Deliveries |-> <<>>]
  /\ calls = [d \in Deliveries |-> {}]
  /\ epc = [d \in Deliveries |-> "none"]
  /\ lookup = [d \in Deliveries |-> NoLookup]
  /\ posted = [d \in Deliveries |-> 0]
  /\ spawned = [d \in Deliveries |-> 0]
  /\ exit = [d \in Deliveries |-> NoExit]
  /\ commentRef = [d \in Deliveries |-> 0]
  /\ flags = [d \in Deliveries |-> NoFlags]
  /\ errorsPublished = 0
  /\ doneBefore = [d \in Deliveries |-> {}]

\* new Poller(provider, intervalMs, eventHandler): the field initialisers.
PollerConstructed ==
  /\ intervalId = FALSE
  /\ polling = FALSE
  /\ errorCount = 0
  /\ ticks = <<>>
  /\ streak = 0
  /\ disabled = FALSE
  /\ skipped = FALSE
  /\ handledAfterStop = FALSE

\* A request: what was sent, how far the server got with it, what it wrote.
\*   stage  "none"      not sent
\*          "reading"   connection accepted, express.json is reading the body
\*          "handling"  admitted by the middleware, the webhook handler runs
\*          "written"   a response was written, 'finish' not yet emitted
\*          "finished"  'finish' was emitted
\*          "aborted"   the client closed the connection before 'finish'
NoRequest == [kind |-> "none", body |-> "none", stage |-> "none", status |-> 0,
              admitted |-> FALSE, toHandler |-> FALSE, afterStop |-> FALSE]

\* new WebhookServer(config): the field initialisers.
ServerConstructed ==
  /\ http = "none"
  /\ shuttingDown = FALSE
  /\ activeRequests = 0
  /\ spc = "idle"
  /\ elapsed = FALSE
  /\ requests = [r \in Requests |-> NoRequest]

\* A start() or stop() call that was not made yet.
NoCall == [pc |-> "idle", snap |-> <<>>, idx |-> 0, err |-> "none",
           failed |-> "none",
           target |-> 0, mode |-> "none", log |-> <<>>]

\* A start() or stop() call that has settled: how, with which error, and
\* the steps it went through.
Over(pc, err, log) == [NoCall EXCEPT !.pc = pc, !.err = err, !.log = log]

\* config.providers[name] as start() reads it: enabled, whether there is an
\* auth block, pollingInterval (0: none), and the container lists of options.
ProviderConfs ==
  [enabled : BOOLEAN, auth : BOOLEAN, pollingInterval : {0, 30},
   options : [repositories : {<<>>, <<"x">>}, projects : {<<>>, <<"x">>},
              teams : {<<>>, <<"x">>}, channels : {<<>>, <<"x">>}]]

NoOptions == [repositories |-> <<>>, projects |-> <<>>, teams |-> <<>>,
              channels |-> <<>>]
PolledConf == [enabled |-> TRUE, auth |-> TRUE, pollingInterval |-> 30,
               options |-> [NoOptions EXCEPT !.repositories = <<"x">>]]

\* The configurations the lifecycle is explored with: a disabled provider,
\* one that only receives webhooks, one that is also polled.
LifecycleConfs ==
  { [enabled |-> FALSE, auth |-> FALSE, pollingInterval |-> 0,
     options |-> NoOptions],
    [enabled |-> TRUE, auth |-> FALSE, pollingInterval |-> 0,
     options |-> NoOptions],
    PolledConf }

\* new Watcher(config): the field initialisers and the constructor.
WatcherFields ==
  /\ started = FALSE
  /\ registry = <<>>
  /\ unregistered = {}
  /\ refused = FALSE
  /\ pstate = [p \in Providers |-> "new"]
  /\ inits = [p \in Providers |-> 0]
  /\ wserver = 0
  /\ servers = [c \in StartCalls |-> "none"]
  /\ pollers = [p \in Providers |-> 0]
  /\ timers = {}
  /\ sc = [c \in StartCalls |-> NoCall]
  /\ tc = [k \in StopCalls |-> NoCall]
  /\ emitted = <<>>
  /\ shutdownWhileLive = FALSE

\* A Watcher on which no lifecycle call is made.
WatcherQuiet ==
  /\ WatcherFields
  /\ pconf = [p \in Providers |-> PolledConf]

\* provider.poll is not in its loop.
NoItem == [stage |-> "idle"]

\* The containers a platform poller keeps a cursor for: the configured
\* repositories (GitHub) or projects (GitLab); LinearPoller keeps one cursor.
Containers == {"a", "b", "all"}
ContainersOf(p) == IF p = "linear" THEN <<"all">> ELSE <<"a", "b">>

\* initialLookbackHours ?? 1
initialLookbackHours == 1

\* poll() is not running.
NoPoll == [stage |-> "idle", at |-> 0, since |-> 0]

\* The items of the platform a poller can be given, and the arrays of
\* poll() and pollRepository before anything is pushed.
PolledItems == 1..MaxItems
NoItems == [all |-> <<>>, repo |-> <<>>]

\* retry.ts: defaultOptions (without shouldRetry, which is an operator below)
defaultOptions == [maxRetries |-> 5, baseDelayMs |-> 1000, maxDelayMs |-> 30000]

\* lastError before fn has thrown: undefined.
NoError == [kind |-> "none", status |-> 0]

\* A header the request does not carry, a secret that is not configured:
\* undefined.
Absent == "undefined"
NoHook == [secret |-> Absent, event |-> Absent, deliveryId |-> Absent,
           signature |-> Absent, rawBody |-> ""]
NoVerdict == [done |-> FALSE, valid |-> FALSE, error |-> ""]

\* No event: no command has been asked for.
NoSubject == [id |-> "", provider |-> "", type |-> "", action |-> "",
              resource |-> [repository |-> "", number |-> 0]]

\* The provider f, the platform poller p, the retry helper called with the
\* options o (n calls of fn made), the GitHubWebhook with the request h and
\* the CommandExecutor asked to run for the event e, each as constructed:
\* nothing handled, no cursor set, nothing validated, nothing spawned.
ToolsWith(f, p, o, n, h, e, m) ==
  /\ forge = f
  /\ ppc = NoItem
  /\ handled = {}
  /\ dropped = {}
  /\ seen = 0
  /\ platform = p
  /\ clock = initialLookbackHours + 1
  /\ lastPoll = [c \in Containers |-> 0]
  /\ cpc = NoPoll
  /\ prev = [c \in Containers |-> [polled |-> FALSE, since |-> 0, ok |-> FALSE]]
  /\ polls = 0
  /\ maxItemsPerPoll = m
  /\ updatedAt = [i \in PolledItems |-> 0]
  /\ items = NoItems
  /\ returned = {}
  /\ opts = o
  /\ attempt = 0
  /\ rpc = IF n = 0 THEN "idle" ELSE "calling"
  /\ lastError = NoError
  /\ fnCalls = n
  /\ waits = <<>>
  /\ hook = h
  /\ verdict = NoVerdict
  /\ subject = e
  /\ env = ""

ToolsAt(f, p, o, n, h) == ToolsWith(f, p, o, n, h, NoSubject, 0)

ToolsIdle == ToolsAt("github", "github", defaultOptions, 0, NoHook)

Init ==
  /\ cfg \in Configs
  /\ NoDeliveries
  /\ PollerConstructed
  /\ ServerConstructed
  /\ ToolsIdle
  /\ WatcherQuiet

\* ----------------------------------------------------------------- actions
NumberOf(d) == event[d].resource.number

\* The closure of delivery d returns or throws: in both cases
\* provider.handleWebhook settles and processWebhook is over.
Settle(d, how) ==
  /\ epc' = [epc EXCEPT ![d] = how]
  /\ hpc' = [hpc EXCEPT ![d] = "done"]

\* WebhookHandler.handle, up to the await of provider.validateWebhook.
\* Deliveries are numbered in the order they arrive.
Receive(d, body) ==
  /\ hpc[d] = "idle"
  /\ \A e \in Deliveries : e < d => hpc[e] # "idle"
  /\ req' = [req EXCEPT ![d] = body]
  /\ doneBefore' = [doneBefore EXCEPT ![d] = {e \in Deliveries : hpc[e] = "done"}]
  /\ IF isHandshake(body)
     THEN /\ response' = [response EXCEPT ![d] = <<Reply(200, body.challenge)>>]
          /\ hpc' = [hpc EXCEPT ![d] = "done"]
          /\ calls' = calls
     ELSE /\ calls' = [calls EXCEPT ![d] = @ \cup {"validateWebhook"}]
          /\ hpc' = [hpc EXCEPT ![d] = "validating"]
          /\ response' = response
  /\ UNCHANGED lifecycleVars
  /\ UNCHANGED <<cfg, platformVars, closureVars, valid, event>>

\* provider.validateWebhook settles: 401, 500 or the 202 ack and setImmediate.
ValidateWebhookReturns(d, isValid) ==
  /\ hpc[d] = "validating"
  /\ valid' = [valid EXCEPT ![d] = isValid]
  /\ LET a == afterValidation(isValid) IN
       /\ response' = [response EXCEPT ![d] = @ \o a.reply]
       /\ hpc' = [hpc EXCEPT ![d] = a.next]
  /\ UNCHANGED lifecycleVars
  /\ UNCHANGED <<cfg, platformVars, closureVars, req, event, calls, doneBefore>>

\* The setImmediate callback: processWebhook calls provider.handleWebhook,
\* which throws, filters the event out, or calls the event-handler closure;
\* the closure runs up to its await of reactor.getLastComment().
ProcessWebhook(d, payload) ==
  /\ hpc[d] = "scheduled"
  /\ payload \in PayloadsOf(req[d])
  /\ calls' = [calls EXCEPT ![d] = @ \cup {"handleWebhook"}]
  /\ IF ~cfg.token
     THEN \* 'GitHub comments not initialized (token required)'
          /\ payload = Ping
          /\ response' = [response EXCEPT ![d] = onProcessError(@)]
          /\ flags' = [flags EXCEPT ![d].processError = TRUE]
          /\ hpc' = [hpc EXCEPT ![d] = "done"]
          /\ UNCHANGED <<epc, event>>
     ELSE /\ UNCHANGED <<response, flags>>
          /\ IF payload.event = "issues"
                /\ shouldProcessEvent(normalizeEvent(payload), "undefined")
             THEN /\ hpc' = [hpc EXCEPT ![d] = "processing"]
                  /\ epc' = [epc EXCEPT ![d] = "lookup"]
                  /\ event' = [event EXCEPT ![d] = normalizeEvent(payload)]
             ELSE /\ hpc' = [hpc EXCEPT ![d] = "done"]
                  /\ UNCHANGED <<epc, event>>
  /\ UNCHANGED lifecycleVars
  /\ UNCHANGED <<cfg, platformVars, requestVars, lookup, posted, spawned, exit,
                 commentRef, errorsPublished>>

\* reactor.getLastComment() settles (null when the retrieval failed); then
\* isDuplicate, emit('event') to the subscribers, who may throw, and the
\* dispatch step up to its await of reactor.postComment.
GetLastCommentReturns(d, failed, threw) ==
  /\ epc[d] = "lookup"
  /\ LET n == NumberOf(d)
         tail == IF Len(thread[n]) = 0 THEN Null ELSE thread[n][Len(thread[n])]
         last == IF failed THEN Null ELSE getLastComment(thread[n])
     IN
       /\ lookup' = [lookup EXCEPT ![d] =
            [done |-> TRUE, failed |-> failed, returned |-> last,
             tail |-> tail, ver |-> version[n]]]
       /\ IF isDuplicate(last)
          THEN /\ ~threw
               /\ Settle(d, "resolved")
               /\ UNCHANGED <<flags, errorsPublished, response>>
          ELSE IF threw
          THEN \* a subscriber threw out of emit('event'): catch of line 176
               IF emitErrorThrows(cfg.errorListener)
               THEN /\ Settle(d, "rejected")
                    /\ flags' = [flags EXCEPT ![d].subscriberThrew = TRUE,
                                              ![d].processError = TRUE]
                    /\ response' = [response EXCEPT ![d] = onProcessError(@)]
                    /\ UNCHANGED errorsPublished
               ELSE /\ Settle(d, "resolved")
                    /\ flags' = [flags EXCEPT ![d].subscriberThrew = TRUE]
                    /\ errorsPublished' = errorsPublished + 1
                    /\ UNCHANGED response
          ELSE /\ flags' = [flags EXCEPT ![d].dispatched = TRUE]
               /\ epc' = [epc EXCEPT ![d] =
                            IF cfg.executor THEN "posting" ELSE "marking"]
               /\ UNCHANGED <<hpc, errorsPublished, response>>
  /\ UNCHANGED lifecycleVars
  /\ UNCHANGED <<cfg, platformVars, requestVars, event, calls, posted, spawned,
                 exit,
                 commentRef>>

\* The platform answers the post of the marker comment:
\* 'Agent is working on <displayString>' from CommandExecutor.execute, or the
\* rendered commentTemplate from Watcher.markAsProcessed.  execute then
\* returns (dry run), spawns the command, or catches the failed post;
\* markAsProcessed returns either way.
PostCommentReturns(d, ok) ==
  /\ epc[d] \in {"posting", "marking"}
  /\ LET n == NumberOf(d)
         step == IF epc[d] = "marking" THEN "return"
                 ELSE afterMarkerPost(ok, cfg.dryRun)
     IN
       /\ IF ok
          THEN /\ thread' = [thread EXCEPT ![n] =
                               postComment(@, Comment(BotAccount, "marker"))]
               /\ version' = [version EXCEPT ![n] = @ + 1]
               /\ posted' = [posted EXCEPT ![d] = @ + 1]
               /\ commentRef' = [commentRef EXCEPT ![d] =
                                   IF cfg.refs THEN Len(thread[n]) + 1 ELSE 0]
          ELSE UNCHANGED <<thread, version, posted, commentRef>>
       /\ IF step = "runCommand"
          THEN /\ spawned' = [spawned EXCEPT ![d] = @ + 1]
               /\ epc' = [epc EXCEPT ![d] = "running"]
               /\ UNCHANGED hpc
          ELSE /\ Settle(d, "resolved")
               /\ spawned' = spawned
  /\ UNCHANGED lifecycleVars
  /\ UNCHANGED <<cfg, humanPosts, requestVars, event, response, calls, lookup,
                 exit, flags, errorsPublished>>

\* The child process closes or fails to start; execute then starts the
\* follow-up (update of the marker when the reactor gave a handle, a new
\* comment otherwise) or returns.
CommandCloses(d, outcome) ==
  /\ epc[d] = "running"
  /\ exit' = [exit EXCEPT ![d] = outcome]
  /\ IF runCommandResolves(outcome) /\ wantsFollowUp(cfg.followUp, outcome.stdout)
     THEN /\ epc' = [epc EXCEPT ![d] = "following"]
          /\ UNCHANGED hpc
     ELSE Settle(d, "resolved")
  /\ UNCHANGED lifecycleVars
  /\ UNCHANGED <<cfg, platformVars, requestVars, event, response, calls,
                 lookup, posted, spawned, commentRef, flags, errorsPublished>>

\* The platform answers the follow-up; a failure is caught by execute.
FollowUpReturns(d, ok) ==
  /\ epc[d] = "following"
  /\ LET n == NumberOf(d) IN
       /\ IF ~ok
          THEN UNCHANGED <<thread, version, posted, flags>>
          ELSE /\ version' = [version EXCEPT ![n] = @ + 1]
               /\ IF commentRef[d] # 0
                  THEN /\ thread' = [thread EXCEPT ![n] =
                            updateComment(@, commentRef[d], "output")]
                       /\ flags' = [flags EXCEPT ![d].updated = TRUE]
                       /\ posted' = posted
                  ELSE /\ thread' = [thread EXCEPT ![n] =
                            postComment(@, Comment(BotAccount, "output"))]
                       /\ posted' = [posted EXCEPT ![d] = @ + 1]
                       /\ flags' = flags
       /\ Settle(d, "resolved")
  /\ UNCHANGED lifecycleVars
  /\ UNCHANGED <<cfg, humanPosts, requestVars, event, response, calls, lookup,
                 spawned, exit, commentRef, errorsPublished>>

\* A person writes a comment on resource n.
HumanComments(n) ==
  /\ humanPosts < MaxHumanComments
  /\ humanPosts' = humanPosts + 1
  /\ thread' = [thread EXCEPT ![n] = Append(@, Comment("alice", "human"))]
  /\ version' = [version EXCEPT ![n] = @ + 1]
  /\ UNCHANGED lifecycleVars
  /\ UNCHANGED <<cfg, requestVars, event, hpc, response, calls, closureVars>>

Next ==
  \/ \E d \in Deliveries, body \in Bodies : Receive(d, body)
  \/ \E d \in Deliveries, isValid \in {"valid", "invalid", "error"} :
       ValidateWebhookReturns(d, isValid)
  \/ \E d \in Deliveries, payload \in {Ping} \cup IssuePayloads :
       ProcessWebhook(d, payload)
  \/ \E d \in Deliveries, failed \in BOOLEAN, threw \in BOOLEAN :
       GetLastCommentReturns(d, failed, threw)
  \/ \E d \in Deliveries, ok \in BOOLEAN : PostCommentReturns(d, ok)
  \/ \E d \in Deliveries, outcome \in Outcomes : CommandCloses(d, outcome)
  \/ \E d \in Deliveries, ok \in BOOLEAN : FollowUpReturns(d, ok)
  \/ \E n \in Numbers : HumanComments(n)

Spec == Init /\ [][Next]_vars

\* ================================================================== Poller
Min(a, b) == IF a < b THEN a ELSE b
Remove(seq, i) == SubSeq(seq, 1, i - 1) \o SubSeq(seq, i + 1, Len(seq))

\* poll(): "if (this.polling) return".
skipsTick_Never(isPolling) == FALSE

\* poll(): "if (this.polling) return".
skipsTick(isPolling) == isPolling

\* poll(): "if (this.errorCount >= this.maxErrorCount)".
thresholdReached(n) == n >= maxErrorCount

\* poll(): errorCount after provider.poll resolved.
afterSuccess_Keep(n) == n

\* poll(): errorCount after provider.poll resolved.
afterSuccess(n) == 0

\* poll(): the delay awaited after the n-th failure in a row.
backoffMs_NoDoubling(n) == Min(baseBackoff * n, maxBackoff)

\* poll(): the delay awaited after the n-th failure in a row.
backoffMs(n) == Min(baseBackoff * 2^(n - 1), maxBackoff)

NewTick == [stage |-> "fetching", left |-> 0, delay |-> 0, cancelled |-> FALSE]

\* poll() up to its first await.  timerIfDisabled is intervalId once the
\* caller has returned when poll() took the "excessive errors" branch:
\* poll() clears it through stop(), start() sets it after poll() returned.
poll(timerIfDisabled) ==
  IF skipsTick(polling)
  THEN /\ skipped' = TRUE
       /\ intervalId' = TRUE
       /\ UNCHANGED <<polling, ticks, disabled>>
  ELSE IF thresholdReached(errorCount)
  THEN /\ disabled' = TRUE
       /\ intervalId' = timerIfDisabled
       /\ UNCHANGED <<polling, ticks, skipped>>
  ELSE /\ polling' = TRUE
       /\ ticks' = Append(ticks, NewTick)
       /\ intervalId' = TRUE
       /\ UNCHANGED <<disabled, skipped>>

\* Poller.start().
PollerStart ==
  /\ IF intervalId
     THEN UNCHANGED <<intervalId, polling, ticks, disabled, skipped>>
     ELSE poll(TRUE)
  /\ UNCHANGED <<errorCount, streak, handledAfterStop, notPollerVars>>

\* Poller.stop().  The polls in flight are not told: they are only marked
\* here as having been in flight when stop() was called.
PollerStop ==
  /\ intervalId' = FALSE
  /\ ticks' = [i \in DOMAIN ticks |-> [ticks[i] EXCEPT !.cancelled = TRUE]]
  /\ UNCHANGED <<polling, errorCount, streak, disabled, skipped,
                 handledAfterStop, notPollerVars>>

\* The interval timer fires: "() => { this.poll(); }".
TimerFires ==
  /\ intervalId
  /\ poll(FALSE)
  /\ UNCHANGED <<errorCount, streak, handledAfterStop, notPollerVars>>

\* poll(): "await this.provider.poll(...)" resolved, then finally.
succeed(i) ==
  /\ errorCount' = afterSuccess(errorCount)
  /\ streak' = 0
  /\ polling' = FALSE
  /\ ticks' = Remove(ticks, i)

\* poll(): the catch block up to "await new Promise(... setTimeout ...)".
fail(i) ==
  /\ errorCount' = errorCount + 1
  /\ streak' = streak + 1
  /\ ticks' = [ticks EXCEPT ![i] = [@ EXCEPT !.stage = "backoff",
                                             !.left = 0,
                                             !.delay = backoffMs(errorCount + 1)]]
  /\ UNCHANGED polling

\* provider.poll: "const items = await this.poller.poll()" resolved with n
\* items that pass the filter; the event handler is called for the first.
FetchResolves(i, n) ==
  /\ i \in DOMAIN ticks
  /\ ticks[i].stage = "fetching"
  /\ IF n = 0
     THEN succeed(i) /\ UNCHANGED handledAfterStop
     ELSE /\ ticks' = [ticks EXCEPT ![i] = [@ EXCEPT !.stage = "handling",
                                                     !.left = n]]
          /\ handledAfterStop' = (handledAfterStop \/ ticks[i].cancelled)
          /\ UNCHANGED <<polling, errorCount, streak>>
  /\ UNCHANGED <<intervalId, disabled, skipped, notPollerVars>>

\* provider.poll rejected before any item: the platform request failed, or
\* the provider has no poller or no comments client.
FetchRejects(i) ==
  /\ i \in DOMAIN ticks
  /\ ticks[i].stage = "fetching"
  /\ fail(i)
  /\ UNCHANGED <<intervalId, disabled, skipped, handledAfterStop, notPollerVars>>

\* provider.poll: "await eventHandler(normalizedEvent, reactor)" settled;
\* the loop goes on to the next item, or provider.poll returns.
HandlerSettles(i, ok) ==
  /\ i \in DOMAIN ticks
  /\ ticks[i].stage = "handling"
  /\ IF ~ok
     THEN fail(i) /\ UNCHANGED handledAfterStop
     ELSE IF ticks[i].left > 1
     THEN /\ ticks' = [ticks EXCEPT ![i] = [@ EXCEPT !.left = @ - 1]]
          /\ handledAfterStop' = (handledAfterStop \/ ticks[i].cancelled)
          /\ UNCHANGED <<polling, errorCount, streak>>
     ELSE succeed(i) /\ UNCHANGED handledAfterStop
  /\ UNCHANGED <<intervalId, disabled, skipped, notPollerVars>>

\* poll(): the back-off timer fired, then finally.
BackoffElapses(i) ==
  /\ i \in DOMAIN ticks
  /\ ticks[i].stage = "backoff"
  /\ polling' = FALSE
  /\ ticks' = Remove(ticks, i)
  /\ UNCHANGED <<intervalId, errorCount, streak, disabled, skipped,
                 handledAfterStop, notPollerVars>>

PollingConfig == CHOOSE c \in Configs : c.token /\ ~c.executor

InitPoller ==
  /\ cfg = PollingConfig
  /\ NoDeliveries
  /\ PollerConstructed
  /\ ServerConstructed
  /\ ToolsIdle
  /\ WatcherQuiet

NextPoller ==
  \/ PollerStart
  \/ PollerStop
  \/ TimerFires
  \/ \E i \in 1..Len(ticks), n \in 0..MaxItems : FetchResolves(i, n)
  \/ \E i \in 1..Len(ticks) : FetchRejects(i)
  \/ \E i \in 1..Len(ticks), ok \in BOOLEAN : HandlerSettles(i, ok)
  \/ \E i \in 1..Len(ticks) : BackoffElapses(i)

SpecPoller == InitPoller /\ [][NextPoller]_vars

\* =========================================================== WebhookServer
OpenStages == {"reading", "handling", "written"}

\* express.json(): a body it cannot parse is answered 400 by express's
\* error handling before any later middleware runs.
bodyParserRejects(body) == body = "malformed"

\* The shutdown middleware: "if (this.shuttingDown) { res.status(503) ... }".
refusesWhenDraining_Never(isShuttingDown) == FALSE

\* The shutdown middleware: "if (this.shuttingDown) { res.status(503) ... }".
refusesWhenDraining(isShuttingDown) == isShuttingDown

\* stop(): the condition of the wait loop,
\* "this.activeRequests > 0 && Date.now() - startTime < timeout".
keepsWaiting(active, isElapsed) == active > 0 /\ ~isElapsed

\* WebhookServer.start(): listen succeeded (ok) or the server emitted 'error'.
ServerStart(ok) ==
  /\ http = "none"
  /\ spc \in {"idle", "resolved"}
  /\ http' = IF ok THEN "listening" ELSE "none"
  /\ spc' = "idle"
  /\ UNCHANGED <<shuttingDown, activeRequests, elapsed, requests, notServerVars>>

\* stop(): "this.server!.close(...)": the listener stops accepting.
callClose ==
  /\ http' = "closing"
  /\ spc' = "closing"

\* WebhookServer.stop() up to its first await.
ServerStop ==
  /\ spc \in {"idle", "resolved"}
  /\ http = "listening"
  /\ shuttingDown' = TRUE
  /\ elapsed' = FALSE
  /\ IF keepsWaiting(activeRequests, FALSE)
     THEN spc' = "waiting" /\ UNCHANGED http
     ELSE callClose
  /\ UNCHANGED <<activeRequests, requests, notServerVars>>

\* Time goes by while stop() waits: 30 s since stop() was called.
TimeoutElapses ==
  /\ spc = "waiting"
  /\ ~elapsed
  /\ elapsed' = TRUE
  /\ UNCHANGED <<http, shuttingDown, activeRequests, spc, requests, notServerVars>>

\* stop(): the 100 ms sleep of the wait loop returned and the loop ends.
WaitEnds ==
  /\ spc = "waiting"
  /\ ~keepsWaiting(activeRequests, elapsed)
  /\ callClose
  /\ UNCHANGED <<shuttingDown, activeRequests, elapsed, requests, notServerVars>>

\* stop(): the callback of server.close, called once the listener is closed
\* and every connection has ended.
CloseCompletes ==
  /\ spc = "closing"
  /\ \A r \in Requests : requests[r].stage \notin OpenStages
  /\ http' = "none"
  /\ shuttingDown' = FALSE
  /\ spc' = "resolved"
  /\ UNCHANGED <<activeRequests, elapsed, requests, notServerVars>>

\* A client connects and sends a request (POST /webhook/<provider> or
\* GET /health).
Arrive(r, kind, body) ==
  /\ requests[r].stage = "none"
  /\ http = "listening"
  /\ (kind = "health") = (body = "none")
  /\ requests' = [requests EXCEPT ![r] =
       [NoRequest EXCEPT !.kind = kind, !.body = body, !.stage = "reading",
                         !.afterStop = (spc = "waiting")]]
  /\ UNCHANGED <<http, shuttingDown, activeRequests, spc, elapsed, notServerVars>>

\* The body was read: express.json, the shutdown middleware, then the route.
BodyParsed(r) ==
  /\ requests[r].stage = "reading"
  /\ IF bodyParserRejects(requests[r].body)
     THEN /\ requests' = [requests EXCEPT ![r].stage = "written",
                                          ![r].status = 400]
          /\ UNCHANGED activeRequests
     ELSE IF refusesWhenDraining(shuttingDown)
     THEN /\ requests' = [requests EXCEPT ![r].stage = "written",
                                          ![r].status = 503]
          /\ UNCHANGED activeRequests
     ELSE /\ activeRequests' = activeRequests + 1
          /\ requests' = [requests EXCEPT ![r] =
               IF @.kind = "health"
               THEN [@ EXCEPT !.admitted = TRUE, !.stage = "written",
                              !.status = 200]
               ELSE [@ EXCEPT !.admitted = TRUE, !.stage = "handling",
                              !.toHandler = TRUE]]
  /\ UNCHANGED <<http, shuttingDown, spc, elapsed, notServerVars>>

\* The webhook handler wrote its response.
HandlerResponds(r, status) ==
  /\ requests[r].stage = "handling"
  /\ requests' = [requests EXCEPT ![r].stage = "written", ![r].status = status]
  /\ UNCHANGED <<http, shuttingDown, activeRequests, spc, elapsed, notServerVars>>

\* The response was handed to the socket: res emits 'finish'.
ResponseFinishes(r) ==
  /\ requests[r].stage = "written"
  /\ requests' = [requests EXCEPT ![r].stage = "finished"]
  /\ activeRequests' = IF requests[r].admitted THEN activeRequests - 1
                       ELSE activeRequests
  /\ UNCHANGED <<http, shuttingDown, spc, elapsed, notServerVars>>

\* The client closes the connection before 'finish': no 'finish' follows.
ClientAborts(r) ==
  /\ requests[r].stage \in OpenStages
  /\ requests' = [requests EXCEPT ![r].stage = "aborted"]
  /\ UNCHANGED <<http, shuttingDown, activeRequests, spc, elapsed, notServerVars>>

InitServer ==
  /\ cfg = PollingConfig
  /\ NoDeliveries
  /\ PollerConstructed
  /\ ServerConstructed
  /\ ToolsIdle
  /\ WatcherQuiet

NextServer ==
  \/ \E ok \in BOOLEAN : ServerStart(ok)
  \/ ServerStop
  \/ TimeoutElapses
  \/ WaitEnds
  \/ CloseCompletes
  \/ \E r \in Requests, kind \in {"webhook", "health"},
        body \in {"json", "malformed", "none"} : Arrive(r, kind, body)
  \/ \E r \in Requests : BodyParsed(r)
  \/ \E r \in Requests, status \in {202, 401} : HandlerResponds(r, status)
  \/ \E r \in Requests : ResponseFinishes(r)
  \/ \E r \in Requests : ClientAborts(r)

SpecServer == InitServer /\ [][NextServer]_vars

\* ================================================================= Watcher
Range(seq) == {seq[i] : i \in DOMAIN seq}

\* The first provider of snap, from position i on, whose configuration is
\* enabled: the next one initializeProviders awaits (Len(snap) + 1: none).
FirstEnabled(snap, i) ==
  IF \E j \in i..Len(snap) : pconf[snap[j]].enabled
  THEN CHOOSE j \in i..Len(snap) :
         /\ pconf[snap[j]].enabled
         /\ \A k \in i..(j - 1) : ~pconf[snap[k]].enabled
  ELSE Len(snap) + 1

\* start(): "if (this.started) throw new WatcherError(...)".
rejectsStart_Never(isStarted) == FALSE

\* start(): "if (this.started) throw new WatcherError(...)".
rejectsStart(isStarted) == isStarted

\* startWebhookServer(): needsWebhook.
needsWebhook == \E q \in Range(registry) : pconf[q].enabled

\* A poller timer is armed or an HTTP server accepts requests.
Live(tm, srv) ==
  tm # {} \/ \E c \in StartCalls : srv[c] \in {"listening", "closing"}

\* stopPollers(): every Poller of this.pollers is stopped, the map is cleared.
Mapped == {<<pollers[q], q>> : q \in {x \in Providers : pollers[x] # 0}}
NoPollers == [q \in Providers |-> 0]

\* WebhookServer.stop() called on a server in the given state: it closes the
\* listener and resolves ("closes"), returns at once because the server is
\* already gone ("returns"), or rejects because server.close reports that
\* the server is not running ("rejects").
serverStopMode(state) ==
  CASE state = "listening" -> "closes"
    [] state = "closed" -> "returns"
    [] OTHER -> "rejects"

AfterStopCall(srv, t) ==
  IF srv[t] = "listening" THEN [srv EXCEPT ![t] = "closing"] ELSE srv

\* The promise of WebhookServer.stop() has settled.
Settled(t, mode) ==
  CASE mode = "closes" -> servers[t] = "closed"
    [] mode = "rejects" -> servers[t] # "closing"
    [] OTHER -> TRUE

\* registerProvider / unregisterProvider:
\* "if (this.started) throw new WatcherError(...)".
rejectsRegistryChange_Never(isStarted) == FALSE

\* registerProvider / unregisterProvider:
\* "if (this.started) throw new WatcherError(...)".
rejectsRegistryChange(isStarted) == isStarted

\* registerProvider(name, provider).  The callers register each provider at
\* most once, so ProviderRegistry.register finds no duplicate.
RegisterProvider(q) ==
  /\ q \notin Range(registry)
  /\ q \notin unregistered
  /\ IF rejectsRegistryChange(started)
     THEN refused' = TRUE /\ UNCHANGED registry
     ELSE registry' = Append(registry, q) /\ UNCHANGED refused
  /\ UNCHANGED <<started, unregistered, pconf, pstate, inits, wserver, servers,
                 pollers, timers, sc, tc, emitted, shutdownWhileLive,
                 notWatcherVars>>

\* unregisterProvider(name), for a name that is registered.
UnregisterProvider(q) ==
  /\ q \in Range(registry)
  /\ IF rejectsRegistryChange(started)
     THEN refused' = TRUE /\ UNCHANGED <<registry, unregistered>>
     ELSE /\ registry' = SelectSeq(registry, LAMBDA x : x # q)
          /\ unregistered' = unregistered \cup {q}
          /\ UNCHANGED refused
  /\ UNCHANGED <<started, pconf, pstate, inits, wserver, servers, pollers,
                 timers, sc, tc, emitted, shutdownWhileLive, notWatcherVars>>

\* start() up to its first await: the guard, then initializeProviders up to
\* the first provider.initialize it awaits.
StartCall(c) ==
  /\ sc[c].pc = "idle"
  /\ c > 1 => sc[c - 1].pc # "idle"
  /\ sc' = [sc EXCEPT ![c] =
       IF rejectsStart(started)
       THEN Over("rejected", "already started", <<>>)
       ELSE [@ EXCEPT !.pc = "initializing", !.snap = registry,
                      !.idx = FirstEnabled(registry, 1)]]
  /\ UNCHANGED <<started, registry, unregistered, refused, pconf, pstate, inits, wserver, servers,
                 pollers, timers, tc, emitted, shutdownWhileLive,
                 notWatcherVars>>

\* initializeProviders: the catch around provider.initialize,
\* "throw new ProviderError(`Failed to initialize provider ...`, name, error)".
wrapInitError_Raw(name) == [err |-> "Error", failed |-> "none"]

\* initializeProviders: the catch around provider.initialize,
\* "throw new ProviderError(`Failed to initialize provider ...`, name, error)".
wrapInitError(name) == [err |-> "ProviderError", failed |-> name]

\* Another error start() rethrows: it names no provider.
Plain(err) == [err |-> err, failed |-> "none"]

\* The providers whose initialize() start() call c awaited successfully.
InitializedBy(c) ==
  SelectSeq(SubSeq(sc[c].snap, 1, sc[c].idx - 1), LAMBDA q : pconf[q].enabled)

\* start(): the catch block, cleanup() up to "await this.server.stop()".
\* srv is the servers as the failing step left them.
Cleanup(c, e, srv) ==
  /\ timers' = timers \ Mapped
  /\ pollers' = NoPollers
  /\ IF wserver # 0
     THEN /\ servers' = AfterStopCall(srv, wserver)
          /\ sc' = [sc EXCEPT ![c] = [@ EXCEPT !.pc = "cleanup", !.err = e.err,
                       !.failed = e.failed,
                       !.log = InitializedBy(c),
                       !.target = wserver,
                       !.mode = serverStopMode(srv[wserver])]]
     ELSE /\ servers' = srv
          /\ sc' = [sc EXCEPT ![c] =
                     [Over("rejected", e.err, InitializedBy(c))
                        EXCEPT !.failed = e.failed]]
  /\ UNCHANGED wserver

\* start(): initializeProviders is over; startWebhookServer up to
\* "await this.server.start()".
AfterInit(c) ==
  /\ IF needsWebhook
     THEN /\ wserver' = c
          /\ servers' = [servers EXCEPT ![c] = "new"]
          /\ sc' = [sc EXCEPT ![c] = [@ EXCEPT !.pc = "listening",
                                              !.idx = Len(sc[c].snap) + 1]]
     ELSE /\ sc' = [sc EXCEPT ![c] = [@ EXCEPT !.pc = "serverUp",
                                              !.idx = Len(sc[c].snap) + 1]]
          /\ UNCHANGED <<wserver, servers>>
  /\ UNCHANGED <<pollers, timers>>

\* initializeProviders: the awaited provider.initialize settled (or there
\* was none to await), the loop goes on.
InitializeReturns(c, ok) ==
  /\ sc[c].pc = "initializing"
  /\ LET snap == sc[c].snap
         i == sc[c].idx
         j == FirstEnabled(snap, i + 1)
     IN IF Len(snap) = 0
        THEN ok /\ Cleanup(c, Plain("WatcherError"), servers) /\ UNCHANGED <<pstate, inits>>
        ELSE IF i > Len(snap)
        THEN ok /\ AfterInit(c) /\ UNCHANGED <<pstate, inits>>
        ELSE IF ~ok
        THEN Cleanup(c, wrapInitError(snap[i]), servers) /\ UNCHANGED <<pstate, inits>>
        ELSE /\ pstate' = [pstate EXCEPT ![snap[i]] = "ready"]
             /\ inits' = [inits EXCEPT ![snap[i]] = @ + 1]
             /\ IF j <= Len(snap)
                THEN /\ sc' = [sc EXCEPT ![c].idx = j]
                     /\ UNCHANGED <<wserver, servers, pollers, timers>>
                ELSE AfterInit(c)
  /\ UNCHANGED <<started, registry, unregistered, refused, pconf, tc, emitted, shutdownWhileLive,
                 notWatcherVars>>

\* WebhookServer.start(): the listen callback (ok) or the 'error' event; the
\* port is free only if no other server of this process listens on it.
ListenReturns(c, ok) ==
  /\ sc[c].pc = "listening"
  /\ ok => \A d \in StartCalls : servers[d] # "listening"
  /\ IF ok
     THEN /\ servers' = [servers EXCEPT ![c] = "listening"]
          /\ sc' = [sc EXCEPT ![c].pc = "serverUp"]
          /\ UNCHANGED <<wserver, pollers, timers>>
     ELSE Cleanup(c, Plain("listen"), [servers EXCEPT ![c] = "failed"])
  /\ UNCHANGED <<started, registry, unregistered, refused, pconf, pstate, inits, tc, emitted,
                 shutdownWhileLive, notWatcherVars>>

\* startPollers(): hasPollingConfig.
hasPollingConfig_ListsOnly(name, options, hasAuth) ==
  \/ Len(options.repositories) > 0
  \/ Len(options.projects) > 0
  \/ Len(options.teams) > 0

\* startPollers(): hasPollingConfig.
hasPollingConfig(name, options, hasAuth) ==
  \/ Len(options.repositories) > 0
  \/ Len(options.projects) > 0
  \/ Len(options.teams) > 0
  \/ (name = "linear" /\ hasAuth)

\* startPollers(): the checks one provider passes before its Poller is made.
createsPoller(name, conf) ==
  /\ conf.enabled
  /\ conf.pollingInterval # 0
  /\ conf.auth
  /\ hasPollingConfig(name, conf.options, conf.auth)

\* startPollers(): a Poller is created, stored and started for every
\* provider whose configuration asks for one.
StartPollers(c) ==
  /\ sc[c].pc = "serverUp"
  /\ LET polled == {q \in Range(registry) : createsPoller(q, pconf[q])}
     IN /\ pollers' = [q \in Providers |-> IF q \in polled THEN c ELSE pollers[q]]
        /\ timers' = timers \cup {<<c, q>> : q \in polled}
  /\ sc' = [sc EXCEPT ![c].pc = "armed"]
  /\ UNCHANGED <<started, registry, unregistered, refused, pconf, pstate, inits, wserver, servers,
                 tc, emitted, shutdownWhileLive, notWatcherVars>>

\* start(): "this.started = true; this.emit('started')".
StartResolves(c) ==
  /\ sc[c].pc = "armed"
  /\ started' = TRUE
  /\ emitted' = Append(emitted, "started")
  /\ sc' = [sc EXCEPT ![c] = Over("resolved", "none", <<>>)]
  /\ UNCHANGED <<registry, unregistered, refused, pconf, pstate, inits, wserver, servers, pollers,
                 timers, tc, shutdownWhileLive, notWatcherVars>>

\* cleanup(): server.stop() settled; "this.server = undefined", then start()
\* rethrows.
CleanupReturns(c) ==
  /\ sc[c].pc = "cleanup"
  /\ Settled(sc[c].target, sc[c].mode)
  /\ wserver' = 0
  /\ sc' = [sc EXCEPT ![c] = [Over("rejected", sc[c].err, sc[c].log)
                                 EXCEPT !.failed = sc[c].failed]]
  /\ UNCHANGED <<started, registry, unregistered, refused, pconf, pstate, inits, servers, pollers,
                 timers, tc, emitted, shutdownWhileLive, notWatcherVars>>

\* The listener of a server that is being stopped has closed.
ServerCloses(t) ==
  /\ servers[t] = "closing"
  /\ servers' = [servers EXCEPT ![t] = "closed"]
  /\ UNCHANGED <<started, registry, unregistered, refused, pconf, pstate, inits, wserver, pollers,
                 timers, sc, tc, emitted, shutdownWhileLive, notWatcherVars>>

\* stop(): shutdownProviders up to the first provider.shutdown it awaits,
\* or, with no provider, the end of stop().  tm and srv are the timers and
\* servers as the step leaves them.
BeginShutdown(k, log, tm, srv) ==
  IF Len(registry) = 0
  THEN /\ started' = FALSE
       /\ emitted' = Append(emitted, "stopped")
       /\ tc' = [tc EXCEPT ![k] = Over("resolved", "none", Append(log, "stopped"))]
       /\ UNCHANGED shutdownWhileLive
  ELSE /\ tc' = [tc EXCEPT ![k] = [@ EXCEPT !.pc = "shutting", !.log = log,
                                           !.snap = registry, !.idx = 1]]
       /\ shutdownWhileLive' = (shutdownWhileLive \/ Live(tm, srv))
       /\ UNCHANGED <<started, emitted>>

\* stop() up to its first await.
StopCall(k) ==
  /\ tc[k].pc = "idle"
  /\ k > 1 => tc[k - 1].pc # "idle"
  /\ IF ~started
     THEN /\ tc' = [tc EXCEPT ![k] = Over("returned", "none", <<>>)]
          /\ UNCHANGED <<started, servers, pollers, timers, emitted,
                         shutdownWhileLive>>
     ELSE /\ timers' = timers \ Mapped
          /\ pollers' = NoPollers
          /\ IF wserver # 0
             THEN /\ servers' = AfterStopCall(servers, wserver)
                  /\ tc' = [tc EXCEPT ![k] = [@ EXCEPT !.pc = "draining",
                               !.log = <<"pollers">>,
                               !.target = wserver,
                               !.mode = serverStopMode(servers[wserver])]]
                  /\ UNCHANGED <<started, emitted, shutdownWhileLive>>
             ELSE /\ BeginShutdown(k, <<"pollers">>, timers \ Mapped, servers)
                  /\ UNCHANGED servers
  /\ UNCHANGED <<registry, unregistered, refused, pconf, pstate, inits, wserver, sc, notWatcherVars>>

\* stop(): "await this.server.stop()" settled.
DrainReturns(k) ==
  /\ tc[k].pc = "draining"
  /\ Settled(tc[k].target, tc[k].mode)
  /\ IF tc[k].mode = "rejects"
     THEN /\ tc' = [tc EXCEPT ![k] = Over("rejected", "server.stop", tc[k].log)]
          /\ UNCHANGED <<started, wserver, emitted, shutdownWhileLive>>
     ELSE /\ wserver' = 0
          /\ BeginShutdown(k, Append(tc[k].log, "server"), timers, servers)
  /\ UNCHANGED <<registry, unregistered, refused, pconf, pstate, inits, servers, pollers, timers, sc,
                 notWatcherVars>>

\* shutdownProviders: the awaited provider.shutdown settled (an error is
\* logged and dropped); the loop goes on, or stop() ends.
ShutdownReturns(k, ok) ==
  /\ tc[k].pc = "shutting"
  /\ LET q == tc[k].snap[tc[k].idx]
         log == Append(tc[k].log, q)
     IN /\ pstate' = [pstate EXCEPT ![q] = "down"]
        /\ IF tc[k].idx < Len(tc[k].snap)
           THEN /\ tc' = [tc EXCEPT ![k] = [@ EXCEPT !.idx = @ + 1, !.log = log]]
                /\ shutdownWhileLive' = (shutdownWhileLive \/ Live(timers, servers))
                /\ UNCHANGED <<started, emitted>>
           ELSE /\ started' = FALSE
                /\ emitted' = Append(emitted, "stopped")
                /\ tc' = [tc EXCEPT ![k] = Over("resolved", "none", Append(log, "stopped"))]
                /\ UNCHANGED shutdownWhileLive
  /\ UNCHANGED <<registry, unregistered, refused, pconf, inits, wserver, servers, pollers, timers, sc,
                 notWatcherVars>>

InitWatcher ==
  /\ cfg = PollingConfig
  /\ NoDeliveries
  /\ PollerConstructed
  /\ ServerConstructed
  /\ ToolsIdle
  /\ WatcherFields
  /\ pconf \in [Providers -> LifecycleConfs]

NextWatcher ==
  \/ \E q \in Providers : RegisterProvider(q)
  \/ \E q \in Providers : UnregisterProvider(q)
  \/ \E c \in StartCalls : StartCall(c)
  \/ \E c \in StartCalls, ok \in BOOLEAN : InitializeReturns(c, ok)
  \/ \E c \in StartCalls, ok \in BOOLEAN : ListenReturns(c, ok)
  \/ \E c \in StartCalls : StartPollers(c)
  \/ \E c \in StartCalls : StartResolves(c)
  \/ \E c \in StartCalls : CleanupReturns(c)
  \/ \E t \in StartCalls : ServerCloses(t)
  \/ \E k \in StopCalls : StopCall(k)
  \/ \E k \in StopCalls : DrainReturns(k)
  \/ \E k \in StopCalls, ok \in BOOLEAN : ShutdownReturns(k, ok)

SpecWatcher == InitWatcher /\ [][NextWatcher]_vars

\* One start() on a watcher with one registered provider, under every
\* configuration of that provider.
InitStart ==
  /\ cfg = PollingConfig
  /\ NoDeliveries
  /\ PollerConstructed
  /\ ServerConstructed
  /\ ToolsIdle
  /\ started = FALSE
  /\ \E q \in Providers : registry = <<q>>
  /\ unregistered = {}
  /\ refused = FALSE
  /\ \E conf \in ProviderConfs : pconf = [q \in Providers |-> conf]
  /\ pstate = [q \in Providers |-> "new"]
  /\ inits = [q \in Providers |-> 0]
  /\ wserver = 0
  /\ servers = [c \in StartCalls |-> "none"]
  /\ pollers = NoPollers
  /\ timers = {}
  /\ sc = [c \in StartCalls |-> NoCall]
  /\ tc = [k \in StopCalls |-> NoCall]
  /\ emitted = <<>>
  /\ shutdownWhileLive = FALSE

NextStart ==
  \/ StartCall(1)
  \/ \E ok \in BOOLEAN : InitializeReturns(1, ok)
  \/ \E ok \in BOOLEAN : ListenReturns(1, ok)
  \/ StartPollers(1)
  \/ StartResolves(1)
  \/ CleanupReturns(1)

SpecStart == InitStart /\ [][NextStart]_vars

\* ------------------------------------------------- one provider's filter
\* What the platform sends: the resource types, the actions of webhook
\* payloads and the states of a resource, per forge.
ReviewType(f) == IF f = "github" THEN "pull_request" ELSE "merge_request"
TypesOf(f) == {"issue", ReviewType(f)}
ActionsOf(f) ==
  IF f = "github"
  THEN {"opened", "created", "reopened", "closed", "synchronize", "edited"}
  ELSE {"open", "update", "reopen", "close", "merge"}
StatesOf(f) ==
  IF f = "github" THEN {"open", "closed"} ELSE {"opened", "closed", "merged"}

\* normalizeEvent / normalizePolledEvent of a payload or item of the resource
\* type `type`: the id, the provider, the repository and the fields the
\* filter reads.  The native id and the delivery id or time stamp that end
\* the id are "1" and "0".
Normalized(type, action, state) ==
  [id |-> forge \o ":" \o Repository \o ":" \o action \o ":1:0",
   provider |-> forge, type |-> type, action |-> action,
   resource |-> [state |-> state, repository |-> Repository]]

\* GitLabProvider.normalizeEvent of a payload whose object_kind is "note":
\* eventId keeps its initial '' and type its initial 'issue', and the note's
\* object_attributes has no action (so 'update') and no state.
normalizeNote ==
  [id |-> "", provider |-> "gitlab", type |-> "issue", action |-> "update",
   resource |-> [state |-> Absent, repository |-> Repository]]

\* GitHubComments.listComments / GitLabComments.listNotes: the promise the
\* caller gets when the platform answers with comments, with none ("empty")
\* or not at all ("error").  The request failing, or answering with an error status, is
\* caught inside and an empty list is returned.
listComments(answer) ==
  [rejected |-> FALSE, length |-> IF answer = "comments" THEN 1 ELSE 0]

\* hasRecentHumanInteraction: true on a rejected listing, else length > 0.
hasRecentHumanInteraction(listing) ==
  IF listing.rejected THEN TRUE ELSE listing.length > 0

\* The provider's filter is applied to ev; the event handler is called or it
\* is not.
Filtered(via, ev, answer, hasRecent) ==
  LET e == [via |-> via, ev |-> ev, listing |-> answer]
      passes == IF forge = "github"
                THEN shouldProcessEvent(ev, hasRecent)
                ELSE GitLab_shouldProcessEvent(ev, hasRecent)
  IN
    /\ IF passes
       THEN handled' = handled \cup {e} /\ dropped' = dropped
       ELSE dropped' = dropped \cup {e} /\ handled' = handled
    /\ seen' = seen + 1

\* provider.handleWebhook for a payload of a supported event type.
HandleWebhook(type, action, state) ==
  /\ ppc = NoItem
  /\ seen < MaxEvents
  /\ type \in TypesOf(forge) /\ action \in ActionsOf(forge)
  /\ state \in StatesOf(forge)
  /\ Filtered("webhook", Normalized(type, action, state), "none", "undefined")
  /\ UNCHANGED <<forge, ppc>>
  /\ UNCHANGED notProviderVars

\* GitLabProvider.handleWebhook for a note (comment) payload on an issue or
\* a merge request.
HandleNote ==
  /\ forge = "gitlab"
  /\ ppc = NoItem
  /\ seen < MaxEvents
  /\ Filtered("webhook", normalizeNote, "none", "undefined")
  /\ UNCHANGED <<forge, ppc>>
  /\ UNCHANGED notProviderVars

\* provider.poll, the loop body for one item up to its first await: a pull
\* or merge request waits for the listing of its comments, an issue is
\* filtered at once.
PollItem(type, state) ==
  /\ ppc = NoItem
  /\ seen < MaxEvents
  /\ type \in TypesOf(forge) /\ state \in StatesOf(forge)
  /\ IF type = ReviewType(forge)
     THEN /\ ppc' = [stage |-> "listing",
                     ev |-> Normalized(type, "poll", state)]
          /\ UNCHANGED <<handled, dropped, seen>>
     ELSE /\ Filtered("poll", Normalized(type, "poll", state), "none",
                      "undefined")
          /\ ppc' = ppc
  /\ forge' = forge
  /\ UNCHANGED notProviderVars

\* The listing settles; the loop body goes on to the filter.
ListCommentsReturns(answer) ==
  /\ ppc.stage = "listing"
  /\ Filtered("poll", ppc.ev, answer,
              IF hasRecentHumanInteraction(listComments(answer))
              THEN "true" ELSE "false")
  /\ ppc' = NoItem
  /\ forge' = forge
  /\ UNCHANGED notProviderVars

InitProvider ==
  /\ cfg = PollingConfig
  /\ NoDeliveries
  /\ PollerConstructed
  /\ ServerConstructed
  /\ WatcherQuiet
  /\ \E f \in {"github", "gitlab"} :
       ToolsAt(f, "github", defaultOptions, 0, NoHook)

NextProvider ==
  \/ \E type \in {"issue", "pull_request", "merge_request"},
        action \in ActionsOf("github") \cup ActionsOf("gitlab"),
        state \in StatesOf("github") \cup StatesOf("gitlab") :
       HandleWebhook(type, action, state)
  \/ HandleNote
  \/ \E type \in {"issue", "pull_request", "merge_request"},
        state \in StatesOf("github") \cup StatesOf("gitlab") :
       PollItem(type, state)
  \/ \E answer \in {"comments", "empty", "error"} :
       ListCommentsReturns(answer)

SpecProvider == InitProvider /\ [][NextProvider]_vars

\* ------------------------------------------------- one platform poller
\* The container poll() is at.
ContainerAt(i) == ContainersOf(platform)[i]

\* The fetches one container takes, the last of them: issues and then pull
\* or merge requests; LinearPoller fetches issues only.
LastFetch == IF platform = "linear" THEN "issues" ELSE "pulls"

\* pollRepository / pollProject / LinearPoller.poll, up to the first fetch:
\* since is the cursor, or the lookback from now when no cursor is set.
Begin(i) ==
  [stage |-> "issues", at |-> i,
   since |-> IF lastPoll[ContainerAt(i)] = 0
             THEN clock - initialLookbackHours
             ELSE lastPoll[ContainerAt(i)]]

\* Time passes.
Tick ==
  /\ clock < MaxClock
  /\ clock' = clock + 1
  /\ UNCHANGED <<platform, lastPoll, cpc, prev, polls, maxItemsPerPoll,
                 updatedAt, items, returned>>
  /\ UNCHANGED notCursorVars

\* Somebody updates item i on the platform; the items are in the first
\* container and each is updated once.
ItemUpdated(i) ==
  /\ updatedAt[i] = 0
  /\ updatedAt' = [updatedAt EXCEPT ![i] = clock]
  /\ UNCHANGED <<platform, clock, lastPoll, cpc, prev, polls, maxItemsPerPoll,
                 items, returned>>
  /\ UNCHANGED notCursorVars

\* poll() is called (by provider.poll, one call at a time).
PollBegins ==
  /\ cpc = NoPoll
  /\ polls < MaxPolls
  /\ polls' = polls + 1
  /\ cpc' = Begin(1)
  /\ items' = NoItems
  /\ UNCHANGED <<platform, clock, lastPoll, prev, maxItemsPerPoll, updatedAt,
                 returned>>
  /\ UNCHANGED notCursorVars

\* fetchIssues(container, since): the items of the container the platform
\* lists, oldest update first, without those with updated_at <= since.
RECURSIVE fetchFrom(_, _, _)
fetchFrom(i, c, since) ==
  IF i > MaxItems THEN <<>>
  ELSE (IF c = ContainerAt(1) /\ updatedAt[i] # 0 /\ updatedAt[i] > since
        THEN <<i>> ELSE <<>>) \o fetchFrom(i + 1, c, since)
fetchIssues(c, since) == fetchFrom(1, c, since)

\* poll(): "if (maxItemsPerPoll && items.length >= maxItemsPerPoll)", the
\* test that ends the loop over the containers.
reachedLimit(all) == maxItemsPerPoll # 0 /\ Len(all) >= maxItemsPerPoll

\* poll(): items.splice(maxItemsPerPoll) / allItems.slice(0, maxItemsPerPoll)
trimmed(all) ==
  IF maxItemsPerPoll # 0 /\ Len(all) > maxItemsPerPoll
  THEN SubSeq(all, 1, maxItemsPerPoll)
  ELSE all

\* poll(): the container at i is done and has added its items to all; the
\* loop goes to the next container, or poll() returns what it has, trimmed.
ContainerDone(i, all) ==
  /\ items' = [all |-> all, repo |-> <<>>]
  /\ IF i < Len(ContainersOf(platform)) /\ ~reachedLimit(all)
     THEN cpc' = Begin(i + 1) /\ returned' = returned
     ELSE cpc' = NoPoll /\ returned' = returned \cup Range(trimmed(all))

\* A fetch resolves: the next fetch of the container starts, or the cursor
\* is set to new Date() and the container is done.
FetchSucceeds ==
  /\ cpc.stage # "idle"
  /\ LET c == ContainerAt(cpc.at)
         repo == IF cpc.stage = "issues"
                 THEN items.repo \o fetchIssues(c, cpc.since)
                 ELSE items.repo
     IN
       IF cpc.stage = LastFetch
       THEN /\ lastPoll' = [lastPoll EXCEPT ![c] = clock]
            /\ prev' = [prev EXCEPT ![c] =
                 [polled |-> TRUE, since |-> cpc.since, ok |-> TRUE]]
            /\ ContainerDone(cpc.at, items.all \o repo)
       ELSE /\ cpc' = [cpc EXCEPT !.stage = "pulls"]
            /\ items' = [items EXCEPT !.repo = repo]
            /\ UNCHANGED <<lastPoll, prev, returned>>
  /\ UNCHANGED <<platform, clock, polls, maxItemsPerPoll, updatedAt>>
  /\ UNCHANGED notCursorVars

\* A fetch throws: the catch (in poll for GitHub and Linear, in pollProject
\* for GitLab) logs it and the container is done.  pollProject returns what
\* the container has given before the throw; GitHubPoller.poll gets nothing
\* of the container.
FetchThrows ==
  /\ cpc.stage # "idle"
  /\ prev' = [prev EXCEPT ![ContainerAt(cpc.at)] =
       [polled |-> TRUE, since |-> cpc.since, ok |-> FALSE]]
  /\ ContainerDone(cpc.at,
                   IF platform = "gitlab" THEN items.all \o items.repo
                   ELSE items.all)
  /\ UNCHANGED <<platform, clock, lastPoll, polls, maxItemsPerPoll, updatedAt>>
  /\ UNCHANGED notCursorVars

InitCursor ==
  /\ cfg = PollingConfig
  /\ NoDeliveries
  /\ PollerConstructed
  /\ ServerConstructed
  /\ WatcherQuiet
  /\ \E p \in {"github", "gitlab", "linear"}, m \in {0, 1} :
       ToolsWith("github", p, defaultOptions, 0, NoHook, NoSubject, m)

NextCursor ==
  \/ Tick
  \/ \E i \in PolledItems : ItemUpdated(i)
  \/ PollBegins
  \/ FetchSucceeds
  \/ FetchThrows

SpecCursor == InitCursor /\ [][NextCursor]_vars

\* ------------------------------------------------ withExponentialRetry
\* What fn can throw: a Response (the callers throw the 409 one), an object
\* with a status property, an Error without one.
Errors ==
  { [kind |-> "Response", status |-> 409],
    [kind |-> "Response", status |-> 500],
    [kind |-> "object", status |-> 409],
    [kind |-> "object", status |-> 0] }

\* defaultOptions.shouldRetry
shouldRetry(error) ==
  IF error.kind = "Response" THEN error.status = 409
  ELSE error.kind = "object" /\ error.status = 409

\* The options a caller can pass, the default ones among them.
RetryOptions ==
  [maxRetries : {0, 2, 5}, baseDelayMs : {500, 1000},
   maxDelayMs : {3000, 30000}]

\* Math.min(baseDelayMs * Math.pow(2, attempt), maxDelayMs)
delayMs(o, n) == Min(o.baseDelayMs * 2^n, o.maxDelayMs)

\* await fn() returns: withExponentialRetry returns its value.
FnResolves ==
  /\ rpc = "calling"
  /\ rpc' = "resolved"
  /\ UNCHANGED <<opts, attempt, lastError, fnCalls, waits>>
  /\ UNCHANGED notRetryVars

\* await fn() throws: the catch rethrows, leaves the loop, or starts the
\* delay.
FnThrows(error) ==
  /\ rpc = "calling"
  /\ lastError' = error
  /\ IF ~shouldRetry(error)
     THEN rpc' = "rejected" /\ waits' = waits
     ELSE IF attempt = opts.maxRetries
     THEN rpc' = "rejected" /\ waits' = waits
     ELSE rpc' = "waiting" /\ waits' = Append(waits, delayMs(opts, attempt))
  /\ UNCHANGED <<opts, attempt, fnCalls>>
  /\ UNCHANGED notRetryVars

\* The delay is over: attempt++ and fn is called again.
DelayElapses ==
  /\ rpc = "waiting"
  /\ attempt' = attempt + 1
  /\ fnCalls' = fnCalls + 1
  /\ rpc' = "calling"
  /\ UNCHANGED <<opts, lastError, waits>>
  /\ UNCHANGED notRetryVars

\* withExponentialRetry(fn, options) up to its first await of fn().
InitRetry ==
  /\ cfg = PollingConfig
  /\ NoDeliveries
  /\ PollerConstructed
  /\ ServerConstructed
  /\ WatcherQuiet
  /\ \E o \in RetryOptions : ToolsAt("github", "github", o, 1, NoHook)

NextRetry ==
  \/ FnResolves
  \/ \E error \in Errors : FnThrows(error)
  \/ DelayElapses

SpecRetry == InitRetry /\ [][NextRetry]_vars

\* ------------------------------------------------ GitHubWebhook.validate
\* The secret the GitHubWebhook was built with, the three headers validate
\* reads and the raw bodies of the requests.
RawBodies == {"{}", "[1]"}

\* computeHmacSignature: the hex digest of the HMAC-SHA256 of payload under
\* secret, one digest per secret and payload.
computeHmacSignature(payload, secret) ==
  CASE secret = "s1" /\ payload = "{}" -> "1a2b"
    [] secret = "s1" /\ payload = "[1]" -> "3c4d"
    [] secret = "s2" /\ payload = "{}" -> "5e6f"
    [] secret = "s2" /\ payload = "[1]" -> "7a8b"
    [] OTHER -> "9c0d"

\* The signature headers a sender can put on a request: none, an empty one,
\* the right one for some secret and body, a digest without the prefix, one
\* with another prefix, and one of the right length that is no digest.
Signatures ==
  {Absent, "", "1a2b", "sha1=1a2b", "sha256=0000"}
  \cup {"sha256=" \o computeHmacSignature(b, k) :
          b \in RawBodies, k \in {"s1", "s2"}}

Hooks ==
  [secret : {Absent, "", "s1", "s2"}, event : {Absent, "", "issues"},
   deliveryId : {Absent, "", "d-1"}, signature : Signatures,
   rawBody : RawBodies]

\* JavaScript's !v for a string or undefined.
Falsy(v) == v \in {Absent, ""}

\* A comparison of the lengths only.
verifyHmacSignature_LengthOnly(payload, signature, secret, prefix) ==
  Len(signature) = Len(prefix \o computeHmacSignature(payload, secret))

\* verifyHmacSignature: the lengths, then timingSafeEqual of the bytes.
verifyHmacSignature(payload, signature, secret, prefix) ==
  LET fullExpectedSignature == prefix \o computeHmacSignature(payload, secret)
  IN  IF Len(signature) # Len(fullExpectedSignature) THEN FALSE
      ELSE signature = fullExpectedSignature

\* GitHubWebhook.validate: { valid, error }
validate(h) ==
  LET Invalid(error) == [done |-> TRUE, valid |-> FALSE, error |-> error]
      Valid == [done |-> TRUE, valid |-> TRUE, error |-> ""]
  IN
  IF Falsy(h.event) THEN Invalid("Missing X-GitHub-Event header")
  ELSE IF Falsy(h.deliveryId) THEN Invalid("Missing X-GitHub-Delivery header")
  ELSE IF Falsy(h.secret) THEN Valid
  ELSE IF Falsy(h.signature) THEN Invalid("Missing X-Hub-Signature-256 header")
  ELSE IF ~verifyHmacSignature(h.rawBody, h.signature, h.secret, "sha256=")
       THEN Invalid("Invalid signature")
  ELSE Valid

\* validate(headers, rawBody) is called and returns.
Validate ==
  /\ ~verdict.done
  /\ verdict' = validate(hook)
  /\ hook' = hook
  /\ UNCHANGED notValidateVars

InitValidate ==
  /\ cfg = PollingConfig
  /\ NoDeliveries
  /\ PollerConstructed
  /\ ServerConstructed
  /\ WatcherQuiet
  /\ \E h \in Hooks : ToolsAt("github", "github", defaultOptions, 0, h)

NextValidate == Validate

SpecValidate == InitValidate /\ [][NextValidate]_vars

\* ------------------------------------------------------ CommandExecutor env
\* Characters of a string s, as JavaScript sees them.
CharAt(s, i) == SubSeq(s, i, i)
Rest(s) == SubSeq(s, 2, Len(s))
Lower == "abcdefghijklmnopqrstuvwxyz"
Upper == "ABCDEFGHIJKLMNOPQRSTUVWXYZ"
Digits == "0123456789"

\* `${n}` of a non-negative integer n
RECURSIVE String(_)
String(n) ==
  IF n < 10 THEN CharAt(Digits, n + 1)
  ELSE String(n \div 10) \o CharAt(Digits, (n % 10) + 1)

\* c.toLowerCase() of one character
toLowerCase(c) ==
  IF \E i \in 1..26 : CharAt(Upper, i) = c
  THEN CharAt(Lower, CHOOSE i \in 1..26 : CharAt(Upper, i) = c)
  ELSE c

\* c matches [a-zA-Z0-9]
isAlphanumeric(c) ==
  \/ \E i \in 1..26 : c \in {CharAt(Lower, i), CharAt(Upper, i)}
  \/ \E i \in 1..10 : c = CharAt(Digits, i)

\* s.replace(/\//g, '-')
RECURSIVE dashed(_)
dashed(s) ==
  IF Len(s) = 0 THEN ""
  ELSE (IF CharAt(s, 1) = "/" THEN "-" ELSE CharAt(s, 1)) \o dashed(Rest(s))

\* s.replace(/[^a-zA-Z0-9]/g, '').toLowerCase()
RECURSIVE cleaned(_)
cleaned(s) ==
  IF Len(s) = 0 THEN ""
  ELSE (IF isAlphanumeric(CharAt(s, 1)) THEN toLowerCase(CharAt(s, 1)) ELSE "")
       \o cleaned(Rest(s))

\* s.slice(-k)
lastChars(s, k) == SubSeq(s, IF Len(s) > k THEN Len(s) - k + 1 ELSE 1, Len(s))

\* s.substring(0, k)
substring(s, k) == SubSeq(s, 1, IF Len(s) > k THEN k ELSE Len(s))

\* extractShortHash without the slice(-6): every alphanumeric of the id.
extractShortHash_Whole(eventId) == cleaned(eventId)
extractShortHash(eventId) == lastChars(cleaned(eventId), 6)

abbreviateType(type) ==
  CASE type = "issue" -> "i"
    [] type = "pull_request" -> "pr"
    [] type = "merge_request" -> "mr"
    [] OTHER -> substring(type, 2)

abbreviateAction(action) ==
  CASE action = "opened" -> "opn"
    [] action = "closed" -> "cls"
    [] action = "reopened" -> "ropn"
    [] action = "edited" -> "edt"
    [] action = "created" -> "crt"
    [] action = "deleted" -> "del"
    [] action \in {"comment", "commented"} -> "cmt"
    [] action \in {"review_requested", "review"} -> "rvw"
    [] action = "assigned" -> "asgn"
    [] action = "unassigned" -> "uasgn"
    [] action = "labeled" -> "lbl"
    [] action = "unlabeled" -> "ulbl"
    [] action = "synchronize" -> "sync"
    [] action = "updated" -> "upd"
    [] action = "merged" -> "mrg"
    [] action = "poll" -> "pol"
    [] OTHER -> substring(action, 4)

generateShortId(ev) ==
  ev.provider \o "-" \o dashed(ev.resource.repository) \o "-"
    \o String(ev.resource.number) \o "-" \o abbreviateType(ev.type) \o "-"
    \o abbreviateAction(ev.action) \o "-" \o extractShortHash(ev.id)

\* The events a command is run for: what the providers' normalizers build
\* from a webhook (the delivery id last in the id) or from a polled item
\* (Date.now() last in the id).
Subjects ==
  { [id |-> p \o ":" \o r \o ":" \o a \o ":" \o String(n) \o ":" \o t,
     provider |-> p, type |-> ty, action |-> a,
     resource |-> [repository |-> r, number |-> n]] :
      p \in {"github", "gitlab"},
      r \in {"o/r", "Group/sub/repo"},
      n \in {7, 123},
      ty \in {"issue", "pull_request", "merge_request"},
      a \in {"opened", "unassigned", "poll", "approved"},
      t \in {"9F", "abcd-1234", "1700000000000"} }

InitShortId ==
  /\ cfg \in {c \in Configs : c.executor}
  /\ NoDeliveries
  /\ PollerConstructed
  /\ ServerConstructed
  /\ WatcherQuiet
  /\ \E e \in Subjects :
       ToolsWith("github", "github", defaultOptions, 0, NoHook, e, 0)

\* runCommand builds the environment of the subprocess and spawns it.
RunCommand ==
  /\ env = ""
  /\ env' = generateShortId(subject)
  /\ UNCHANGED subject
  /\ UNCHANGED notExecutorVars

NextShortId == RunCommand

SpecShortId == InitShortId /\ [][NextShortId]_vars

\* ------------------------------------------------------------------ claims
Accepted == <<Reply(202, "accepted")>>
SawBotLast(d) ==
  /\ lookup[d].done
  /\ lookup[d].returned # Null
  /\ lookup[d].returned.author \in BotUsernames
Untouched(d) == spawned[d] = 0 /\ posted[d] = 0 /\ ~flags[d].dispatched

\* C1: when reactor.getLastComment() returned a comment whose author is one
\* of the configured bot identities, the dispatcher neither runs the command
\* nor posts any comment for that event.
C1_BotLastCommentSkips == \A d \in Deliveries : SawBotLast(d) => Untouched(d)
C1_Witness ==
  \E d \in Deliveries : SawBotLast(d) /\ epc[d] = "resolved" /\ hpc[d] = "done"

\* The marker of an earlier delivery was the last comment on the resource
\* when delivery d looked the thread up.
MarkerWasLast(d) ==
  /\ lookup[d].done
  /\ lookup[d].tail # Null
  /\ lookup[d].tail.kind = "marker"

OwnChanges(d) == posted[d] + (IF flags[d].updated THEN 1 ELSE 0)

\* Delivery d2 is the same webhook as d1, delivered after d1 was handled to
\* the end with its command run, and between the lookups of d1 and d2 the
\* thread was changed by nothing but d1 itself.
Replay(d1, d2) ==
  /\ d1 # d2
  /\ d1 \in doneBefore[d2]
  /\ spawned[d1] = 1
  /\ event[d2] = event[d1]
  /\ hpc[d2] = "done"
  /\ lookup[d2].done
  /\ lookup[d2].ver = lookup[d1].ver + OwnChanges(d1)
OnceAcross(d1, d2) ==
  /\ spawned[d1] + spawned[d2] = 1
  /\ posted[d1] + posted[d2] \in {1, 2}

C5_AckBeforeProcessing ==
  \A d \in Deliveries :
    ("handleWebhook" \in calls[d] \/ epc[d] # "none" \/ lookup[d].done
       \/ posted[d] > 0 \/ spawned[d] > 0)
      => (Len(response[d]) >= 1 /\ response[d][1] = Reply(202, "accepted"))
C5_Witness ==
  \E d \in Deliveries : "handleWebhook" \in calls[d] /\ posted[d] > 0

\* C6: a request that validateWebhook reports invalid is answered 401 and
\* never reaches Provider.handleWebhook or the event handler.
C6_InvalidIs401 ==
  \A d \in Deliveries :
    valid[d] = "invalid" =>
      /\ response[d] = <<Reply(401, "Invalid webhook")>>
      /\ "handleWebhook" \notin calls[d]
      /\ epc[d] = "none"
C6_Witness == \E d \in Deliveries : valid[d] = "invalid" /\ hpc[d] = "done"

\* C7: a POST of type url_verification carrying a challenge is answered 200
\* with that challenge, and neither validateWebhook nor handleWebhook is
\* called for it.
C7_HandshakeAnswered ==
  \A d \in Deliveries :
    (hpc[d] # "idle" /\ req[d].type = "url_verification"
       /\ req[d].challenge # "")
      => (response[d] = <<Reply(200, req[d].challenge)>> /\ calls[d] = {})
C7_Witness ==
  \E d \in Deliveries :
    hpc[d] = "done" /\ req[d].type = "url_verification"
      /\ req[d].challenge = "abc123"

\* C8: once a request has passed validation its response is the 202 and
\* stays so: no later failure writes another status or a second response.
C8_AckIsFinal == \A d \in Deliveries : valid[d] = "valid" => response[d] = Accepted
C8_Witness ==
  \E d \in Deliveries :
    valid[d] = "valid" /\ hpc[d] = "done" /\ flags[d].processError

\* C9: the event-handler closure never propagates a failure to its caller.
C9_ClosureNeverRejects == \A d \in Deliveries : epc[d] # "rejected"

\* C10: an exception thrown by a subscriber of 'event' does not prevent the
\* dispatch step from running for that event.
C10_SubscriberThrowKeepsDispatch ==
  \A d \in Deliveries : flags[d].subscriberThrew => flags[d].dispatched

\* ----------------------------------------------------------- Poller claims
InFlight == {i \in DOMAIN ticks : ticks[i].stage \in {"fetching", "handling"}}
BackingOff == {i \in DOMAIN ticks : ticks[i].stage = "backoff"}

\* C11: the poller disables itself exactly when maxErrorCount (5) polls in a
\* row have failed: errorCount is the number of failures since the last
\* successful poll (a success resets it to 0), the poller is disabled only
\* with 5 failures in a row, after the 5th no provider.poll is started
\* again, and the next timer tick clears the timer (isRunning is false).
C11_DisablesAtThreshold ==
  /\ [](errorCount = streak)
  /\ [](disabled => streak = maxErrorCount)
  /\ [][streak = maxErrorCount => Len(ticks') <= Len(ticks)]_vars
  /\ [][(streak = maxErrorCount /\ intervalId /\ ~polling) => ~intervalId']_vars
C11_Witness == disabled /\ ~intervalId /\ streak = 5

\* C12: after the n-th failed poll in a row the poll backs off for
\* 1 s, 2 s, 4 s, 8 s, 16 s (n = 1..5) before it returns, and no new poll
\* begins while it does.
BackoffTable == <<1000, 2000, 4000, 8000, 16000>>
C12_BackoffDoubles ==
  /\ [](\A i \in BackingOff :
          /\ streak \in 1..5
          /\ ticks[i].delay = BackoffTable[streak]
          /\ Len(ticks) = 1)
  /\ [][BackingOff # {} => Len(ticks') <= Len(ticks)]_vars
C12_Witness ==
  \E i \in BackingOff : ticks[i].delay = 16000 /\ streak = 5 /\ intervalId

\* C13: at most one provider.poll is in flight at any time; a timer tick
\* that fires while the previous one is still running starts none.
C13_SingleFlight ==
  /\ [](Cardinality(InFlight) <= 1)
  /\ [][InFlight # {} => Len(ticks') <= Len(ticks)]_vars
C13_Witness == skipped /\ InFlight # {}

\* C14: 'disabled' is absorbing: once the failure threshold has been
\* crossed, the poller starts no provider.poll and never reports
\* isRunning = true again, whatever tick or start() follows.
C14_DisabledIsAbsorbing == disabled => (~intervalId /\ InFlight = {})

\* C15: after Poller.stop() a poll that was in flight calls the event
\* handler for no further event.
C15_NoHandlerAfterStop == ~handledAfterStop

\* ---------------------------------------------------- WebhookServer claims
Answered(r) == requests[r].status # 0
Draining(r) == requests[r].afterStop

\* C16 as stated: every webhook request that arrives after stop() was called
\* and before the listener closes is answered 503 and reaches no handler.
C16_Original ==
  \A r \in Requests :
    (Draining(r) /\ requests[r].kind = "webhook") =>
       /\ ~requests[r].toHandler
       /\ Answered(r) => requests[r].status = 503

\* C16 (amended): a webhook request that arrives after stop() was called and
\* before the listener closes reaches no handler, and it is answered 503
\* when its body is one the JSON body parser accepts.
C16_DrainingRefuses ==
  \A r \in Requests :
    (Draining(r) /\ requests[r].kind = "webhook") =>
       /\ ~requests[r].toHandler
       /\ (Answered(r) /\ ~bodyParserRejects(requests[r].body)) =>
             requests[r].status = 503
C16_Witness ==
  \E r \in Requests :
    /\ Draining(r) /\ requests[r].kind = "webhook"
    /\ requests[r].body = "json" /\ requests[r].status = 503

\* C17: while the server drains, GET /health is still answered 200.
C17_HealthUnaffected ==
  \A r \in Requests :
    (Draining(r) /\ requests[r].kind = "health" /\ Answered(r)) =>
       requests[r].status = 200

\* C18: stop() waits at most 30 s, then force-closes the sockets still open
\* and resolves: once the 30 s are over and stop() has gone on to close the
\* server, no connection is left open to keep stop() from resolving.
C18_StopForcesClose ==
  (spc = "closing" /\ elapsed) =>
     \A r \in Requests : requests[r].stage \notin OpenStages

\* ---------------------------------------------------------- Watcher claims
\* The place of a step of stop() in the order the claim gives.
Rank(step) ==
  CASE step = "pollers" -> 0
    [] step = "server" -> 1
    [] step = "stopped" -> 3
    [] OTHER -> 2

\* C19: stop() stops the pollers, then drains and closes the HTTP server,
\* then shuts every registered provider down, then emits 'stopped'; no
\* provider is shut down while a poller timer is armed or an HTTP server
\* accepts requests.
C19_StopOrder ==
  /\ ~shutdownWhileLive
  /\ \A k \in StopCalls :
       /\ \A i, j \in DOMAIN tc[k].log :
            i < j => Rank(tc[k].log[i]) <= Rank(tc[k].log[j])
       /\ tc[k].pc = "resolved" =>
            tc[k].log[Len(tc[k].log)] = "stopped"

\* C20: start() on a started watcher is rejected with "already started" and
\* changes nothing: no provider is initialized, no server or poller is
\* created, the watcher stays started with its server and pollers.
C20_StartTwiceRejected ==
  [][\A c \in StartCalls :
       (started /\ sc[c].pc = "idle" /\ sc'[c].pc # "idle") =>
          /\ sc'[c].pc = "rejected"
          /\ sc'[c].err = "already started"
          /\ UNCHANGED <<started, registry, pstate, inits, wserver, servers,
                         pollers, timers, emitted>>]_vars
C20_Witness ==
  \E c \in StartCalls :
    /\ sc[c].err = "already started"
    /\ started /\ wserver # 0 /\ servers[wserver] = "listening"
    /\ timers # {}

\* C21: when a provider's initialize() throws during start(), start()
\* rejects with a ProviderError that carries that provider's name; the call
\* initializes no provider after it and calls shutdown() on none of those
\* it had initialized.
C21_InitFailureAborts ==
  /\ [][\A c \in StartCalls :
          (/\ sc[c].pc = "initializing"
           /\ sc[c].idx \in DOMAIN sc[c].snap
           /\ sc'[c].pc \in {"cleanup", "rejected"}) =>
             /\ sc'[c].err = "ProviderError"
             /\ sc'[c].failed = sc[c].snap[sc[c].idx]
             /\ sc'[c].log = InitializedBy(c)]_vars
  /\ [][\A c \in StartCalls :
          (sc'[c] # sc[c] /\ sc'[c].err = "ProviderError") =>
             /\ sc'[c].pc \in {"cleanup", "rejected"}
             /\ pstate' = pstate
             /\ inits' = inits]_vars
C21_Witness ==
  \E c \in StartCalls :
    /\ sc[c].pc = "rejected" /\ sc[c].err = "ProviderError"
    /\ sc[c].failed = "linear" /\ sc[c].log = <<"github">>
    /\ pstate["github"] = "ready" /\ pstate["linear"] = "new"
    /\ inits["linear"] = 0

\* C22: registerProvider and unregisterProvider succeed only while the
\* watcher is not started; while it is started they throw and leave the
\* registered providers as they are: the registry changes only while
\* 'started' is false.
C22_RegistryFrozenWhileStarted ==
  /\ [][registry' # registry => ~started]_vars
  /\ [][(refused' /\ ~refused) => (started /\ registry' = registry)]_vars
C22_Witness == refused /\ started /\ registry = <<"github">>

\* Some container list of the configuration is non-empty.
SomeContainer(options) ==
  \/ Len(options.repositories) > 0
  \/ Len(options.projects) > 0
  \/ Len(options.teams) > 0
  \/ Len(options.channels) > 0

PollersMade == \E c \in StartCalls : sc[c].pc \in {"armed", "resolved"}

ExitedZero(d) == exit[d].event = "close" /\ exit[d].code = 0

\* The step in which the subprocess of d ends.
SubprocessEnds(d) == epc[d] = "running" /\ epc'[d] # "running"

\* The step in which the platform accepts the follow-up of d.
FollowUpLands(d) ==
  epc[d] = "following" /\ epc'[d] # "following" /\ thread' # thread

\* A follow-up is made if and only if the subprocess exited with code 0,
\* followUp is enabled and stdout is non-empty.
FollowUpIff ==
  \A d \in Deliveries :
    SubprocessEnds(d) =>
      ((epc'[d] = "following") <=>
         /\ exit'[d].event = "close" /\ exit'[d].code = 0
         /\ cfg.followUp
         /\ exit'[d].stdout # "")

ClosedNotReopened(ev) ==
  ev.resource.state = "closed" /\ ev.action \notin {"reopened", "reopen"}

\* C24: a normalized event whose resource state is closed and whose action is
\* not reopened / reopen is dropped by the provider and never reaches the
\* event handler, whether it came by webhook or from a poll.
C24_ClosedIsDropped ==
  /\ \A e \in handled : ~ClosedNotReopened(e.ev)
  /\ \A e \in handled \cup dropped : e.via \in {"webhook", "poll"}
  /\ Cardinality(handled \cup dropped) <= seen
C24_Witness ==
  \E w \in dropped, q \in dropped :
    /\ w.via = "webhook" /\ w.ev.action = "created" /\ w.ev.type = "issue"
    /\ w.ev.resource.state = "closed"
    /\ q.via = "poll" /\ q.listing = "comments"
    /\ q.ev.resource.state = "closed"

\* C25: when the listing of the recent comments of a polled pull or merge
\* request fails, the item is taken to have recent human activity: it is not
\* dropped by the no-recent-activity rule but passed to the event handler
\* (unless another rule drops it).
C25_ListingFailureFailsOpen ==
  \A e \in dropped :
    (e.via = "poll" /\ e.listing = "error") => ClosedNotReopened(e.ev)

\* The step in which the poll of container c ends, and the one in which a
\* poll of c begins.
PollOf(c, pos) == pos.stage # "idle" /\ ContainerAt(pos.at) = c
Finishing(c) == PollOf(c, cpc) /\ ~PollOf(c, cpc')
Starting(c) == PollOf(c, cpc') /\ ~PollOf(c, cpc)

\* The cursor moves only to the current time and only as the fetches of its
\* container have succeeded; a failed fetch leaves it as it was.
CursorFollowsSuccess ==
  \A c \in Containers :
    /\ lastPoll'[c] # lastPoll[c] =>
         (Finishing(c) /\ prev'[c].ok /\ lastPoll'[c] = clock)
    /\ (Finishing(c) /\ prev'[c].ok) => lastPoll'[c] = clock
    /\ (Finishing(c) /\ ~prev'[c].ok) => lastPoll'[c] = lastPoll[c]

\* C26: a container's cursor is advanced to the current time only after a
\* fetch for the container has succeeded; when the fetch fails the cursor
\* keeps its value, so that the next poll of the container covers the same
\* time window again (it starts from the same since).
C26_FailedWindowIsPolledAgain ==
  /\ [][CursorFollowsSuccess]_vars
  /\ [][\A c \in Containers :
          (Starting(c) /\ prev[c].polled /\ ~prev[c].ok) =>
             cpc'.since = prev[c].since]_vars

\* C27: with the default options, a call that keeps failing with HTTP 409 is
\* attempted at most 5 times in total, the waits between the attempts are
\* 1 s, 2 s, 4 s, ... capped at 30 s, and the call then fails with the last
\* error; an error that is not retryable is raised at once.
C27_FiveAttempts ==
  opts = defaultOptions =>
    /\ fnCalls <= 5
    /\ \A i \in DOMAIN waits : waits[i] = Min(1000 * 2^(i - 1), 30000)
    /\ (rpc = "rejected" /\ shouldRetry(lastError)) => fnCalls = 5
    /\ (lastError # NoError /\ ~shouldRetry(lastError)) => rpc = "rejected"

\* C28: GitHubWebhook.validate rejects whenever the event-name header or the
\* delivery-id header is absent (or empty); otherwise it accepts without
\* looking at the signature when no secret is configured; otherwise it
\* accepts if and only if the signature header is "sha256=" followed by the
\* hex HMAC-SHA256 of the raw body under the secret.
C28_ValidationOutcome ==
  verdict.done =>
    (verdict.valid <=>
       IF Falsy(hook.event) \/ Falsy(hook.deliveryId) THEN FALSE
       ELSE IF Falsy(hook.secret) THEN TRUE
       ELSE hook.signature =
              "sha256=" \o computeHmacSignature(hook.rawBody, hook.secret))
C28_Witness ==
  /\ verdict.done /\ verdict.valid
  /\ hook.secret = "s2"
  /\ hook.rawBody = "[1]"
  /\ hook.signature = "sha256=7a8b"

\* ------------------------------------------------ dispatch and run claims
\* C31: when no CommandExecutor is enabled, every event that is not a
\* duplicate reaches Watcher.markAsProcessed, which makes the one
\* reactor.postComment call of the rendered commentTemplate.
C31_NoExecutorMarksEach ==
  \A d \in Deliveries :
    ( /\ ~cfg.executor
      /\ epc[d] \in {"resolved", "rejected"}
      /\ lookup[d].done
      /\ ~isDuplicate(lookup[d].returned) )
    => flags[d].dispatched

\* The length the short id has without its suffix and dashes, as C32 counts
\* it: provider, repository with slashes as dashes, number.
NamedLength ==
  Len(subject.provider) + Len(dashed(subject.resource.repository))
    + Len(String(subject.resource.number))

\* C32 as stated: the EVENT_SHORT_ID passed to the subprocess consists of
\* provider, dashed repository, number and a 6-character suffix joined by
\* three dashes, so its length is at most the length of these plus 6 + 3.
C32_Original ==
  env # "" =>
    /\ Len(env) <= NamedLength + 6 + 3
    /\ env = subject.provider \o "-" \o dashed(subject.resource.repository)
               \o "-" \o String(subject.resource.number)
               \o "-" \o lastChars(env, Len(env) - NamedLength - 3)

\* C32 as amended: the EVENT_SHORT_ID consists of provider, dashed
\* repository, number, a type abbreviation of at most 2 characters, an action
\* abbreviation of at most 5 characters and a suffix of at most 6 lower-case
\* alphanumeric characters, joined by five dashes, so its length is at most
\* the length of provider, dashed repository and number plus 2 + 5 + 6 + 5.
C32_ShortIdLength ==
  env # "" =>
    /\ Len(env) <= NamedLength + 2 + 5 + 6 + 5
    /\ \E ty \in {"i", "pr", "mr"}, ac \in {"opn", "uasgn", "pol", "appr"},
          k \in 0..6 :
         /\ env = subject.provider \o "-"
                    \o dashed(subject.resource.repository) \o "-"
                    \o String(subject.resource.number) \o "-" \o ty \o "-"
                    \o ac \o "-" \o lastChars(env, k)
         /\ cleaned(lastChars(env, k)) = lastChars(env, k)
C32_Witness ==
  /\ subject.resource.repository = "Group/sub/repo"
  /\ subject.action = "unassigned"
  /\ subject.type = "pull_request"
  /\ env = "gitlab-Group-sub-repo-123-pr-uasgn-cd1234"

\* C33: every normalized event a provider hands to the dispatcher, from a
\* webhook or from a poll, has a non-empty id, a non-empty provider and a
\* non-empty resource.repository.
C33_HandledIsIdentified ==
  \A e \in handled :
    /\ e.ev.id # ""
    /\ e.ev.provider # ""
    /\ e.ev.resource.repository # ""

\* C34: the command is run for every event CommandExecutor.execute is called
\* for (dry run apart), whether its initial comment was posted or the post
\* failed: once the post has settled the subprocess has been spawned.
C34_FailedMarkerStillRuns ==
  \A d \in Deliveries :
    ( /\ cfg.executor /\ ~cfg.dryRun
      /\ flags[d].dispatched
      /\ epc[d] # "posting" )
    => spawned[d] = 1

\* C35: at most one command subprocess is running at any moment; an event
\* that arrives while a command is running waits for it to finish.
C35_OneCommandAtATime ==
  Cardinality({d \in Deliveries : epc[d] = "running"}) <= 1

\* C36: a stop() called after start() has failed on a provider's
\* initialize() shuts down the providers that start() had initialized: it
\* does not return without calling their shutdown().
C36_StopAfterFailedStart ==
  [][\A k \in StopCalls, c \in StartCalls :
       ( /\ tc[k].pc = "idle" /\ tc'[k].pc # "idle"
         /\ sc[c].pc = "rejected" /\ sc[c].err = "ProviderError"
         /\ \E q \in Range(sc[c].log) : pstate[q] = "ready" )
       => tc'[k].pc # "returned"]_vars

\* C37: a start() called while an earlier start() is still in progress does
\* not run a second start sequence (no provider is initialized twice, no
\* second server and no second set of pollers is created).
C37_NoSecondStartSequence ==
  [][\A c, b \in StartCalls :
       ( /\ b # c
         /\ sc[b].pc \notin {"idle", "resolved", "rejected"}
         /\ sc[c].pc = "idle" /\ sc'[c].pc # "idle" )
       => sc'[c].pc # "initializing"]_vars

\* C38: of two deliveries about the same resource, with no comment by a
\* person in between and both last-comment lookups answered, at most one
\* passes the duplicate check, posts the marker and launches a subprocess,
\* also when the two are processed concurrently.
C38_OneOfTwoLaunches ==
  \A d1, d2 \in Deliveries :
    ( /\ d1 # d2
      /\ spawned[d1] >= 1 /\ spawned[d2] >= 1
      /\ NumberOf(d1) = NumberOf(d2)
      /\ ~lookup[d1].failed /\ ~lookup[d2].failed )
    => humanPosts > 0

\* C39: an item that a poll fetched but cut off by maxItemsPerPoll is
\* returned again by a later poll: when the poll has returned, every item it
\* gathered and no poll has returned yet is still newer than the cursor of
\* its container, so that the next fetch of the container lists it again
\* (the fetches list the items with updated_at > since only, and a cursor
\* never moves back).
C39_CutOffIsFetchedAgain ==
  cpc = NoPoll =>
    \A i \in Range(items.all) \ returned :
      updatedAt[i] > lastPoll[ContainerAt(1)]

\* C40: activeRequests equals the number of requests the middleware admitted
\* whose response has neither finished nor been aborted, so it is never
\* negative and is 0 when no request is in flight.
C40_CounterMatchesInFlight ==
  activeRequests =
    Cardinality({r \in Requests :
                   /\ requests[r].admitted
                   /\ requests[r].stage \notin {"finished", "aborted"}})

====
